---- MODULE Spec2Model ----
(***************************************************************************)
(* Single-flight executor (RPITX) supervising one external process through *)
(* a commander process handle: Start / Wait / Stream / Stop / Kill, the    *)
(* one-shot guards stopOnce and cmdWaitOnce, and the SIGTERM -> SIGKILL    *)
(* escalation in killProcess / forceKill.                                  *)
(*                                                                         *)
(* One handle is live at a time (one per job).  The handle variables       *)
(* describe the handle of the current job; commander.Start re-creates them *)
(* (newProcess).  stopOnce is kept per job because callers of the          *)
(* executor's Stop may still hold a reference to the handle of a finished  *)
(* job.  Every call of Exec and of Stop is a thread of its own.            *)
(***************************************************************************)
EXTENDS Integers, Sequences, FiniteSets, TLC

\* ---------------------------------------------------------------- bounds
\* Calls made on the executor over a behaviour (Exec, Stop and
\* StreamOutputs together, in any mix and any interleaving).
MaxCalls == 3

\* The i-th call of Exec and the i-th call of Stop are threads of their own.
ExecThreads == { <<"E", i>> : i \in 1..MaxCalls }
StopThreads == { <<"S", i>> : i \in 1..MaxCalls }
Waiter      == <<"G", 1>>       \* goroutine of killProcess running cmdWait
Callers     == ExecThreads \cup StopThreads
Threads     == Callers \cup {Waiter}
Jobs        == 1..MaxCalls

\* Grace periods handed to process.Stop: negative, 0 (Kill) or positive.
Graces   == {-1, 0, 1}
\* The Timeout option of commander.Start (a pointer): unset (<<>>) or set to
\* a duration that is negative, 0 or positive.
Timeouts == {<<>>, <<-1>>, <<0>>, <<1>>}
\* Sink pairs handed to Stream: <<stdout present, stderr present>>.
SinkPairs == BOOLEAN \X BOOLEAN
\* The two output streams of the process.
Streams == {"stdout", "stderr"}
\* Lines the process writes over one job, on both streams together.
MaxLines == 2
\* Capacity of a listener's sink (a buffered channel).
SinkCap == 1
\* Lines of one stream in a burst long enough to fill a sink, overflow it
\* and go on after the listener has emptied it.
BurstLines == 3

VARIABLES
  \* --- executor (RPITX)
  isExecuting,    \* the Execution Slot (atomic flag)
  process,        \* job id of the active handle, 0 = nil
  jobs,           \* number of slot acquisitions so far
  calls,          \* number of calls made on the executor so far
  modules,        \* the AudioSockBroadcast instance of the module registry
  parsed,         \* its last ParseArgs call: payload and returned values
  \* --- OS process of the current handle
  procState,      \* "none" | "running" | "zombie" (exited, not reaped) |
                  \* "stolen" (reaped by someone else) | "reaped" (gone)
  exitStatus,     \* status of an exited, not yet reaped process:
                  \* "none" | "exit0" | "exit1" | "sigterm" | "sigkill"
  termPending,    \* SIGTERM delivered and not yet acted upon
  ctxKilled,      \* exec's context watcher killed the process (read and
                  \* cleared by cmd.Wait)
  \* --- process handle (struct process)
  timeoutCtx,     \* "armed" (deadline pending) | "expired" | "none" (no
                  \* deadline, or cancelled before it passed) | "inherited"
                  \* (no deadline attached by Start, the caller's ctx has
                  \* one pending)
  cancelCalled,   \* cancelTimeout() has been invoked
  cmdWaitOnce,    \* "idle" | "running" | "done"
  cmdWaitResult,  \* result stored by cmdWait
  waitCh,         \* TRUE when closed
  stopOnce,       \* per job: "idle" | "running" | "done"
  doneCh,         \* number of close(doneCh) executed
  streamChans,    \* registry: sequence of [reg, stdout, stderr]
  closedSinks,    \* sinks closed by the handle: <<reg, "stdout"|"stderr">>
  regCount,       \* registrations made on the current handle
  discarding,     \* the discardInternalOutput goroutine is running
  stopCtxDone,    \* killProcess' stopCtx (grace period / caller ctx) is done
  callerCtxDone,  \* stopCtx is done because the caller's ctx is done (not
                  \* because the grace period ran out)
  done,           \* killProcess' buffered channel: "empty" or a wait result
  \* --- observation counters of the current handle
  cmdWaitCalls,   \* invocations of cmd.Wait
  termSent,       \* SIGTERM delivered by the handle
  killSent,       \* SIGKILL delivered by the handle
  killCalls,      \* invocations of cmd.Process.Kill by the handle
  bodyRuns,       \* executions of the stopOnce body
  performer,      \* thread that executed the stopOnce body, or <<>>
  \* --- record of the stopOnce body while it runs (cleared when it returns)
  perfGrace,      \* timeout argument of the performing call
  killedAlive,    \* the handle's SIGKILL hit a live process
  termAlive,      \* the handle's SIGTERM hit a live process
  selected,       \* branch killProcess' select took: "none"|"done"|"ctx"
  closedAt,       \* regCount when Stop's closeStreamChannels ran, -1 before
  waitReturned,   \* process.Wait has returned
  \* --- threads
  pc,             \* position of each thread
  cw,             \* position inside cmdWait: "none" | "once" | "run"
  href,           \* job id of the handle a caller holds
  err,            \* local: value returned by cmdWait
  stopErr,        \* local: stopErr of process.Stop
  waitErr,        \* local: value Wait / Exec is about to return
  late,           \* the Stop call was made after the handle's Wait returned
  \* --- output lines of the current handle (line k of a stream is k)
  written,        \* per stream: lines the process has written to its pipe
  lineCount,      \* per stream: lines the reader's scanner has returned
  reader,         \* per stream: "none" | "scan" (in scanner.Scan) |
                  \* "send" (in the select sending line lineCount) |
                  \* "done" (returned, internal channel closed)
  draining,       \* discardInternalOutput is inside drainStderr
  delivered,      \* per registration and stream: lines sent into the sink
  sinkLen,        \* per registration and stream: lines buffered in the sink
  regAt           \* per registration and stream: written at registration

execVars   == <<isExecuting, process, jobs, calls, modules, parsed>>
osVars     == <<procState, exitStatus, termPending, ctxKilled>>
handleVars == <<timeoutCtx, cancelCalled, cmdWaitOnce, cmdWaitResult, waitCh,
                stopOnce, doneCh, streamChans, closedSinks, regCount,
                discarding, stopCtxDone, callerCtxDone, done>>
obsVars    == <<cmdWaitCalls, termSent, killSent, killCalls, bodyRuns,
                performer, perfGrace, killedAlive, termAlive,
                selected, closedAt, waitReturned>>
threadVars == <<pc, cw, href, err, stopErr, waitErr, late>>
lineVars   == <<written, lineCount, reader, draining, delivered, sinkLen,
                regAt>>
vars       == <<execVars, osVars, handleVars, obsVars, threadVars, lineVars>>

\* ------------------------------------------------------------ error values
ErrExecuting     == "ErrExecuting"
ErrNotExecuting  == "ErrNotExecuting"
ErrUnknownModule == "ErrUnknownModule"
ErrParseArgs     == "ErrParseArgs"
ErrStart         == "ErrStart"
ErrTimeout       == "ErrTimeout"
ErrTerminated    == "ErrTerminated"
ErrKilled        == "ErrKilled"
ErrWrapped       == "ErrWrapped"
ErrProcessDone   == "ErrProcessDone"

\* ------------------------------------------------ pure helpers (commander)
\* Error returned by exec.Cmd.Wait for a finished process.
CmdWaitError(state, status, ctxk) ==
  IF state = "stolen" THEN "ECHILD"
  ELSE CASE status = "exit0"   -> IF ctxk THEN "CtxErr" ELSE "nil"
         [] status = "exit1"   -> "ExitError"
         [] status = "sigterm" -> "SignalTERM"
         [] status = "sigkill" -> "SignalKILL"
         [] OTHER              -> "ExitError"

getTerminationSignal(e) ==
  CASE e = "SignalTERM" -> "SIGTERM"
    [] e = "SignalKILL" -> "SIGKILL"
    [] OTHER            -> "0"

isTerminatedBySignal(e) == getTerminationSignal(e) = "SIGTERM"

isKilledBySignal(e) == getTerminationSignal(e) = "SIGKILL"

isHarmlessWaitError(e) == e # "nil" /\ e = "ECHILD"

\* Result of cmd.Process.Signal / cmd.Process.Kill.
ProcessSignal(state) ==
  IF state \in {"reaped", "stolen"} THEN ErrProcessDone ELSE "nil"

\* Faulty variant of WaitResult: the signal is classified before the deadline
\* is looked at.
WaitResult_SignalFirst(e, tctx) ==
  IF e # "nil"
  THEN IF isTerminatedBySignal(e) THEN ErrTerminated
       ELSE IF isKilledBySignal(e) THEN ErrKilled
       ELSE IF tctx = "expired" THEN ErrTimeout
       ELSE ErrWrapped
  ELSE "nil"

\* Outcome mapping at the end of process.Wait.
WaitResult(e, tctx) ==
  IF e # "nil"
  THEN IF tctx = "expired" THEN ErrTimeout
       ELSE IF isTerminatedBySignal(e) THEN ErrTerminated
       ELSE IF isKilledBySignal(e) THEN ErrKilled
       ELSE ErrWrapped
  ELSE "nil"

\* Faulty variant of KillProcessDoneResult: the SIGTERM case is not classified
\* and falls through to the raw wait error.
KillProcessDoneResult_NoTerm(e) ==
  IF isHarmlessWaitError(e) THEN "nil"
  ELSE IF isKilledBySignal(e) THEN ErrKilled
  ELSE e

\* killProcess, branch "case err := <-done".
KillProcessDoneResult(e) ==
  IF isHarmlessWaitError(e) THEN "nil"
  ELSE IF isTerminatedBySignal(e) THEN ErrTerminated
  ELSE IF isKilledBySignal(e) THEN ErrKilled
  ELSE e

\* A classification after SIGKILL that takes "no child processes" for a
\* failure like any other.
ForceKillWaitResult_HarmlessIsError(e) ==
  IF e # "nil"
  THEN IF isKilledBySignal(e) THEN ErrKilled
       ELSE ErrWrapped
  ELSE ErrKilled

\* forceKill, classification of cmdWait's result after SIGKILL.
ForceKillWaitResult(e) ==
  IF e # "nil"
  THEN IF isKilledBySignal(e) THEN ErrKilled
       ELSE IF isHarmlessWaitError(e) THEN ErrKilled
       ELSE ErrWrapped
  ELSE ErrKilled

\* Sinks of the registry that are still active (non-nil).
ActiveSinks(chans) ==
  { <<chans[i].reg, "stdout">> : i \in { j \in DOMAIN chans : chans[j].stdout } }
  \cup
  { <<chans[i].reg, "stderr">> : i \in { j \in DOMAIN chans : chans[j].stderr } }

\* ------------------------------------------- module AudioSockBroadcast
\* A float64 is written <<whole, tenths>>; a nil pointer is <<>>, a set one
\* is <<value>>.
defaultAudioSockBroadcastSampleRate == 48000
CSDRPresetFM == "FM"
validPresets == {"AM", "DSB", "USB", "LSB", "FM", "RAW"}

ErrUnmarshal          == "failed to unmarshal args"
ErrRequiredFieldNotSet == "required field not set: socketPath"
ErrFrequencyPositive  == "invalid value: frequency must be positive"
ErrFreqOutOfRange     == "frequency out of range"
ErrSampleRatePositive == "invalid value: sample rate must be positive"
ErrInvalidPreset      == "invalid value: invalid CSDR preset"
ErrGainNonNegative    == "invalid value: gain must be non-negative"

\* The zero value &AudioSockBroadcast{} the registry is built with.
AudioSockBroadcast ==
  [SocketPath |-> "", Frequency |-> <<0, 0>>, SampleRate |-> <<>>,
   CSDRPreset |-> <<>>, Gain |-> <<>>]

\* Payloads: each key is absent (<<>>) or present with a JSON value; the
\* frequency may be a JSON string, which does not fit a float64.
JNumber(f) == [type |-> "number", num |-> f]
JString    == [type |-> "string", num |-> <<0, 0>>]
SocketPaths == {"", "/tmp/audio_socket"}
Frequencies == {<<1000, 0>>, <<144500000, 5>>, <<433920000, 6>>}
SampleRates == {0, 44100}
Presets     == {"XX", "USB"}
Gains       == {<<-1, 0>>, <<2, 5>>}
Opt(S)      == {<<>>} \cup { <<v>> : v \in S }
Payloads ==
  [socketPath : Opt(SocketPaths),
   frequency  : Opt({JString} \cup { JNumber(f) : f \in Frequencies }),
   sampleRate : Opt(SampleRates),
   csdrPreset : Opt(Presets),
   gain       : Opt(Gains)]

\* json.Unmarshal(args, m): a key that is present and fits sets its field, a
\* key that is absent leaves the field of m as it was, and a value that does
\* not fit is skipped while the rest is still decoded.
Unmarshal(args, m) ==
  [SocketPath |-> IF args.socketPath = <<>> THEN m.SocketPath
                  ELSE args.socketPath[1],
   Frequency  |-> IF args.frequency = <<>> \/ args.frequency[1].type # "number"
                  THEN m.Frequency ELSE args.frequency[1].num,
   SampleRate |-> IF args.sampleRate = <<>> THEN m.SampleRate
                  ELSE args.sampleRate,
   CSDRPreset |-> IF args.csdrPreset = <<>> THEN m.CSDRPreset
                  ELSE args.csdrPreset,
   Gain       |-> IF args.gain = <<>> THEN m.Gain ELSE args.gain]

\* The error of json.Unmarshal: an UnmarshalTypeError for a value that does
\* not fit its field.
UnmarshalErr(args) ==
  IF args.frequency # <<>> /\ args.frequency[1].type # "number"
  THEN ErrUnmarshal ELSE "nil"

\* isValidFreqHz: 5 kHz to 1500 MHz, both ends included.
isValidFreqHz(f) ==
  /\ f[1] >= 5000
  /\ f[1] < 1500000000 \/ (f[1] = 1500000000 /\ f[2] = 0)

validateSocketPath(m) ==
  IF m.SocketPath = "" THEN ErrRequiredFieldNotSet ELSE "nil"

validateFrequency(m) ==
  IF m.Frequency[1] < 0 \/ m.Frequency = <<0, 0>> THEN ErrFrequencyPositive
  ELSE IF ~isValidFreqHz(m.Frequency) THEN ErrFreqOutOfRange
  ELSE "nil"

validateSampleRate(m) ==
  IF m.SampleRate # <<>> /\ m.SampleRate[1] <= 0
  THEN ErrSampleRatePositive ELSE "nil"

validateCSDRPreset(m) ==
  IF m.CSDRPreset = <<>> THEN "nil"
  ELSE IF m.CSDRPreset[1] \in validPresets THEN "nil"
  ELSE ErrInvalidPreset

validateGain(m) ==
  IF m.Gain # <<>> /\ m.Gain[1][1] < 0 THEN ErrGainNonNegative ELSE "nil"

\* AudioSockBroadcast.validate: the five checks in order, first error wins.
validate(m) ==
  IF validateSocketPath(m) # "nil" THEN validateSocketPath(m)
  ELSE IF validateFrequency(m) # "nil" THEN validateFrequency(m)
  ELSE IF validateSampleRate(m) # "nil" THEN validateSampleRate(m)
  ELSE IF validateCSDRPreset(m) # "nil" THEN validateCSDRPreset(m)
  ELSE validateGain(m)

Digit(d) ==
  CASE d = 0 -> "0" [] d = 1 -> "1" [] d = 2 -> "2" [] d = 3 -> "3"
    [] d = 4 -> "4" [] d = 5 -> "5" [] d = 6 -> "6" [] d = 7 -> "7"
    [] d = 8 -> "8" [] d = 9 -> "9"

\* strconv.Itoa: the decimal numeral of n.
RECURSIVE Itoa(_)
Itoa(n) ==
  IF n < 0 THEN "-" \o Itoa(-n)
  ELSE IF n < 10 THEN Digit(n)
  ELSE Itoa(n \div 10) \o Digit(n % 10)

\* strconv.FormatFloat(f, 'f', 0, 64): no decimals, rounded to the nearest
\* integer, a tie to the even one.
FormatFloat0(f) ==
  Itoa(IF f[2] > 5 \/ (f[2] = 5 /\ f[1] % 2 = 1) THEN f[1] + 1 ELSE f[1])

\* strconv.FormatFloat(f, 'f', -1, 64): the shortest numeral that reads back
\* as f.
FormatFloatShortest(f) ==
  IF f[2] = 0 THEN Itoa(f[1]) ELSE Itoa(f[1]) \o "." \o Digit(f[2])

\* AudioSockBroadcast.buildArgs.
buildArgs(m) ==
  << FormatFloat0(m.Frequency),
     m.SocketPath,
     Itoa(IF m.SampleRate # <<>> THEN m.SampleRate[1]
          ELSE defaultAudioSockBroadcastSampleRate),
     IF m.CSDRPreset # <<>> THEN m.CSDRPreset[1] ELSE CSDRPresetFM,
     FormatFloatShortest(IF m.Gain # <<>> THEN m.Gain[1] ELSE <<1, 0>>) >>

\* What a ParseArgs call returns: the list, the input stream, the error
\* (<<>> is a nil list, "nil" a nil reader or error).
Returned(args, stdin, e) == [args |-> args, stdin |-> stdin, err |-> e]

\* AudioSockBroadcast.ParseArgs on the instance of the registry: the payload
\* is unmarshalled into the receiver, the receiver is validated, and the
\* list is built from the receiver.
ParseArgs(args) ==
  /\ modules' = Unmarshal(args, modules)
  /\ parsed' =
       [payload |-> <<args>>,
        ret |-> IF UnmarshalErr(args) # "nil"
                THEN Returned(<<>>, "nil", UnmarshalErr(args))
                ELSE IF validate(modules') # "nil"
                THEN Returned(<<>>, "nil", validate(modules'))
                ELSE Returned(buildArgs(modules'), "nil", "nil")]
  /\ UNCHANGED <<isExecuting, process, jobs, calls>>
  /\ UNCHANGED <<osVars, handleVars, obsVars, threadVars, lineVars>>

\* ------------------------------------------------------------------- Init
Init ==
  /\ isExecuting = FALSE /\ process = 0 /\ jobs = 0 /\ calls = 0
  /\ modules = AudioSockBroadcast
  /\ parsed = [payload |-> <<>>, ret |-> Returned(<<>>, "nil", "nil")]
  /\ procState = "none" /\ exitStatus = "none"
  /\ termPending = FALSE /\ ctxKilled = FALSE
  /\ timeoutCtx = "none" /\ cancelCalled = FALSE
  /\ cmdWaitOnce = "idle" /\ cmdWaitResult = "nil" /\ waitCh = FALSE
  /\ stopOnce = [j \in Jobs |-> "idle"]
  /\ doneCh = 0 /\ streamChans = <<>> /\ closedSinks = {} /\ regCount = 0
  /\ discarding = FALSE
  /\ stopCtxDone = FALSE /\ callerCtxDone = FALSE /\ done = "empty"
  /\ cmdWaitCalls = 0 /\ termSent = 0 /\ killSent = 0 /\ killCalls = 0
  /\ bodyRuns = 0 /\ performer = <<>> /\ perfGrace = 0
  /\ killedAlive = FALSE /\ selected = "none"
  /\ termAlive = FALSE
  /\ closedAt = -1 /\ waitReturned = FALSE
  /\ pc = [t \in Threads |-> "idle"]
  /\ cw = [t \in Threads |-> "none"]
  /\ href = [t \in Threads |-> 0]
  /\ err = [t \in Threads |-> "nil"]
  /\ stopErr = [t \in Threads |-> "nil"]
  /\ waitErr = [t \in Threads |-> "nil"]
  /\ late = [t \in Threads |-> FALSE]
  /\ written = [s \in Streams |-> 0]
  /\ lineCount = [s \in Streams |-> 0]
  /\ reader = [s \in Streams |-> "none"]
  /\ draining = FALSE
  /\ delivered = [r \in Jobs |-> [s \in Streams |-> <<>>]]
  /\ sinkLen = [r \in Jobs |-> [s \in Streams |-> 0]]
  /\ regAt = [r \in Jobs |-> [s \in Streams |-> 0]]

\* commander.newProcess: a fresh handle for the current job.  tctx is the
\* state of the context returned by applyTimeout, st the OS process state.
newProcess(tctx, st, cancelled) ==
  /\ procState' = st /\ exitStatus' = "none"
  /\ termPending' = FALSE /\ ctxKilled' = FALSE
  /\ timeoutCtx' = tctx /\ cancelCalled' = cancelled
  /\ cmdWaitOnce' = "idle" /\ cmdWaitResult' = "nil" /\ waitCh' = FALSE
  /\ doneCh' = 0 /\ streamChans' = <<>> /\ closedSinks' = {} /\ regCount' = 0
  /\ discarding' = (st = "running")
  /\ stopCtxDone' = FALSE /\ callerCtxDone' = FALSE /\ done' = "empty"
  /\ cmdWaitCalls' = 0 /\ termSent' = 0 /\ killSent' = 0 /\ killCalls' = 0
  /\ bodyRuns' = 0 /\ performer' = <<>> /\ perfGrace' = 0
  /\ killedAlive' = FALSE /\ selected' = "none"
  /\ termAlive' = FALSE
  /\ closedAt' = -1 /\ waitReturned' = FALSE
  /\ written' = [s \in Streams |-> 0]
  /\ lineCount' = [s \in Streams |-> 0]
  /\ reader' = [s \in Streams |-> IF st = "running" THEN "scan" ELSE "none"]
  /\ draining' = FALSE
  /\ delivered' = [r \in Jobs |-> [s \in Streams |-> <<>>]]
  /\ sinkLen' = [r \in Jobs |-> [s \in Streams |-> 0]]
  /\ regAt' = [r \in Jobs |-> [s \in Streams |-> 0]]
  /\ UNCHANGED stopOnce

\* An applyTimeout that also attaches a deadline for a timeout of 0.
applyTimeout_ZeroArms(timeout) ==
  IF timeout # <<>> /\ timeout[1] >= 0 THEN "armed" ELSE "none"

\* commander.applyTimeout: a deadline is attached only when the option is set
\* and positive.
applyTimeout(timeout) ==
  IF timeout # <<>> /\ timeout[1] > 0 THEN "armed" ELSE "none"

\* Calls of one kind are numbered in the order they are made.
Invoked(t) == pc[t] # "idle"

MayInvoke(t) ==
  /\ calls < MaxCalls
  /\ IF t[2] = 1 THEN TRUE ELSE Invoked(<<t[1], t[2] - 1>>)

\* Faulty variant of ReleaseSlot: the handle reference is dropped but the
\* Execution Slot is left set.
ReleaseSlot_KeepsFlag ==
  /\ isExecuting' = isExecuting
  /\ process' = 0

\* ------------------------------------------------------- executor (RPITX)
\* Deferred release at the end of Exec: the slot goes idle, the handle
\* reference is dropped.
ReleaseSlot ==
  /\ isExecuting' = FALSE
  /\ process' = 0

\* Faulty variant of ExecAcquire: the slot is set without being tested.
ExecAcquire_NoTestAndSet(t) ==
  /\ t \in ExecThreads /\ pc[t] = "idle" /\ MayInvoke(t)
  /\ IF FALSE
     THEN /\ pc' = [pc EXCEPT ![t] = "e_busy"]
          /\ waitErr' = [waitErr EXCEPT ![t] = ErrExecuting]
          /\ UNCHANGED <<isExecuting, jobs>>
     ELSE /\ isExecuting' = TRUE
          /\ jobs' = jobs + 1
          /\ pc' = [pc EXCEPT ![t] = "e_lookup"]
          /\ UNCHANGED waitErr
  /\ calls' = calls + 1
  /\ UNCHANGED <<modules, parsed>>
  /\ UNCHANGED <<process, osVars, handleVars, obsVars, cw, href, err,
                 stopErr, late>>
  /\ UNCHANGED lineVars

\* Faulty variant of ExecAcquire: the release of the slot is deferred before
\* the test, so a call rejected as busy clears the slot of the running job.
ExecAcquire_BusyReleases(t) ==
  /\ t \in ExecThreads /\ pc[t] = "idle" /\ MayInvoke(t)
  /\ IF isExecuting
     THEN /\ pc' = [pc EXCEPT ![t] = "e_busy"]
          /\ waitErr' = [waitErr EXCEPT ![t] = ErrExecuting]
          /\ isExecuting' = FALSE
          /\ UNCHANGED jobs
     ELSE /\ isExecuting' = TRUE
          /\ jobs' = jobs + 1
          /\ pc' = [pc EXCEPT ![t] = "e_lookup"]
          /\ UNCHANGED waitErr
  /\ calls' = calls + 1
  /\ UNCHANGED <<modules, parsed>>
  /\ UNCHANGED <<process, osVars, handleVars, obsVars, cw, href, err,
                 stopErr, late>>
  /\ UNCHANGED lineVars

\* An Exec that looks the module up and parses the payload before it tests
\* the Execution Slot: a call made while a job runs gets the lookup or the
\* parse failure instead of the busy error.
ExecAcquire_LookupFirst(t) ==
  /\ t \in ExecThreads /\ pc[t] = "idle" /\ MayInvoke(t)
  /\ IF isExecuting
     THEN /\ pc' = [pc EXCEPT ![t] = "e_busy"]
          /\ \E known \in BOOLEAN, ok \in BOOLEAN :
               waitErr' = [waitErr EXCEPT ![t] =
                             IF ~known THEN ErrUnknownModule
                             ELSE IF ~ok THEN ErrParseArgs
                             ELSE ErrExecuting]
          /\ UNCHANGED <<isExecuting, jobs>>
     ELSE /\ isExecuting' = TRUE
          /\ jobs' = jobs + 1
          /\ pc' = [pc EXCEPT ![t] = "e_lookup"]
          /\ UNCHANGED waitErr
  /\ calls' = calls + 1
  /\ UNCHANGED <<modules, parsed>>
  /\ UNCHANGED <<process, osVars, handleVars, obsVars, cw, href, err,
                 stopErr, late>>
  /\ UNCHANGED lineVars

\* Exec step 1: atomic test-and-set of the Execution Slot; a busy slot makes
\* the call return ErrExecuting at once ("e_busy": returned as busy).
ExecAcquire(t) ==
  /\ t \in ExecThreads /\ pc[t] = "idle" /\ MayInvoke(t)
  /\ IF isExecuting
     THEN /\ pc' = [pc EXCEPT ![t] = "e_busy"]
          /\ waitErr' = [waitErr EXCEPT ![t] = ErrExecuting]
          /\ UNCHANGED <<isExecuting, jobs>>
     ELSE /\ isExecuting' = TRUE
          /\ jobs' = jobs + 1
          /\ pc' = [pc EXCEPT ![t] = "e_lookup"]
          /\ UNCHANGED waitErr
  /\ calls' = calls + 1
  /\ UNCHANGED <<modules, parsed>>
  /\ UNCHANGED <<process, osVars, handleVars, obsVars, cw, href, err,
                 stopErr, late>>
  /\ UNCHANGED lineVars

\* Exec steps 2 and 3: module lookup by name, then the collaborator's
\* ParseArgs.  Both are local to the call.
ExecLookupParse(t) ==
  /\ pc[t] = "e_lookup"
  /\ \E known \in BOOLEAN, ok \in BOOLEAN :
       IF ~known
       THEN /\ pc' = [pc EXCEPT ![t] = "e_ret"]
            /\ waitErr' = [waitErr EXCEPT ![t] = ErrUnknownModule]
       ELSE IF ~ok
       THEN /\ pc' = [pc EXCEPT ![t] = "e_ret"]
            /\ waitErr' = [waitErr EXCEPT ![t] = ErrParseArgs]
       ELSE /\ pc' = [pc EXCEPT ![t] = "e_start"]
            /\ UNCHANGED waitErr
  /\ UNCHANGED <<execVars, osVars, handleVars, obsVars, cw, href, err,
                 stopErr, late>>
  /\ UNCHANGED lineVars

\* process.Start: pipes, then spawn.  TRUE when the process runs afterwards.
ProcessStart(outcome) == outcome = "ok"

\* A commander.Start that leaves the timeout context alive when proc.Start
\* fails.
CommanderStart_NoCancel(t) ==
  /\ pc[t] = "e_start"
  /\ \E timeout \in Timeouts, outcome \in {"ok", "pipe", "spawn"} :
       IF ProcessStart(outcome)
       THEN /\ newProcess(applyTimeout(timeout), "running", FALSE)
            /\ process' = jobs
            /\ pc' = [pc EXCEPT ![t] = "w_cmdwait"]
            /\ cw' = [cw EXCEPT ![t] = "once"]
            /\ href' = [href EXCEPT ![t] = jobs]
            /\ UNCHANGED waitErr
       ELSE /\ newProcess(applyTimeout(timeout), "none", FALSE)
            /\ process' = process
            /\ waitErr' = [waitErr EXCEPT ![t] = ErrStart]
            /\ pc' = [pc EXCEPT ![t] = "e_ret"]
            /\ UNCHANGED <<cw, href>>
  /\ UNCHANGED <<isExecuting, jobs, calls, modules, parsed, err, stopErr, late>>

\* Exec step 5 = commander.Start: applyTimeout, newProcess, process.Start.  On
\* failure cancel() is called and no handle is returned; on success the
\* handle becomes the executor's active handle and Exec goes on to Wait.
CommanderStart(t) ==
  /\ pc[t] = "e_start"
  /\ \E timeout \in Timeouts, outcome \in {"ok", "pipe", "spawn"} :
       IF ProcessStart(outcome)
       THEN /\ newProcess(applyTimeout(timeout), "running", FALSE)
            /\ process' = jobs
            /\ pc' = [pc EXCEPT ![t] = "w_cmdwait"]
            /\ cw' = [cw EXCEPT ![t] = "once"]
            /\ href' = [href EXCEPT ![t] = jobs]
            /\ UNCHANGED waitErr
       ELSE /\ newProcess("none", "none", TRUE)
            /\ process' = process
            /\ waitErr' = [waitErr EXCEPT ![t] = ErrStart]
            /\ pc' = [pc EXCEPT ![t] = "e_ret"]
            /\ UNCHANGED <<cw, href>>
  /\ UNCHANGED <<isExecuting, jobs, calls, modules, parsed, err, stopErr, late>>

\* The context the handle keeps as timeoutCtx: the one applyTimeout derived,
\* or, when it attached no deadline, the caller's ctx itself, which may carry
\* a deadline of the caller's (deadline) that the handle's cancel function,
\* a no-op then, does not release.
startCtx(tctx, deadline) ==
  IF tctx = "armed" THEN "armed"
  ELSE IF deadline THEN "inherited" ELSE "none"

\* commander.Start called with a ctx that carries a deadline of the caller's:
\* exec.CommandContext and the handle get the context applyTimeout returns,
\* derived with the Timeout when that is positive, the caller's ctx
\* otherwise.
CommanderStartCtx(t) ==
  /\ pc[t] = "e_start"
  /\ \E timeout \in Timeouts, outcome \in {"ok", "pipe", "spawn"} :
       IF ProcessStart(outcome)
       THEN /\ newProcess(startCtx(applyTimeout(timeout), TRUE), "running", FALSE)
            /\ process' = jobs
            /\ pc' = [pc EXCEPT ![t] = "w_cmdwait"]
            /\ cw' = [cw EXCEPT ![t] = "once"]
            /\ href' = [href EXCEPT ![t] = jobs]
            /\ UNCHANGED waitErr
       ELSE /\ newProcess("none", "none", TRUE)
            /\ process' = process
            /\ waitErr' = [waitErr EXCEPT ![t] = ErrStart]
            /\ pc' = [pc EXCEPT ![t] = "e_ret"]
            /\ UNCHANGED <<cw, href>>
  /\ UNCHANGED <<isExecuting, jobs, calls, modules, parsed, err, stopErr, late>>

\* An Exec whose early returns (lookup, ParseArgs, Start) leave before the
\* release of the slot is in place.
ExecReturn_FailureKeepsSlot(t) ==
  /\ pc[t] = "e_ret"
  /\ IF waitErr[t] \in {ErrUnknownModule, ErrParseArgs, ErrStart}
     THEN isExecuting' = isExecuting /\ process' = 0
     ELSE ReleaseSlot
  /\ newProcess("none", "none", FALSE)
  /\ LET gone == { u \in StopThreads :
                     pc[u] = "st_ret" /\ process # 0 /\ href[u] = process }
     IN /\ pc' = [u \in Threads |->
                    IF u = t \/ u \in gone THEN "done"
                    ELSE IF u = Waiter THEN "idle" ELSE pc[u]]
        /\ href' = [u \in Threads |->
                      IF u = t \/ u \in gone THEN 0 ELSE href[u]]
        /\ stopErr' = [u \in Threads |->
                         IF u \in gone THEN "nil" ELSE stopErr[u]]
        /\ late' = [u \in Threads |-> IF u \in gone THEN FALSE ELSE late[u]]
  /\ cw' = [cw EXCEPT ![Waiter] = "none"]
  /\ waitErr' = [waitErr EXCEPT ![t] = "nil"]
  /\ err' = [err EXCEPT ![t] = "nil"]
  /\ UNCHANGED <<jobs, calls, modules, parsed>>

\* Exec returns (step 7): the slot is cleared on every path and the handle,
\* if any, is dropped with it.  From here on only callers that already hold
\* the handle can reach it, and they read nothing of it but stopOnce; what
\* the Stop calls that returned on it got is no longer tracked.
ExecReturn(t) ==
  /\ pc[t] = "e_ret"
  /\ ReleaseSlot
  /\ newProcess("none", "none", FALSE)
  /\ LET gone == { u \in StopThreads :
                     pc[u] = "st_ret" /\ process # 0 /\ href[u] = process }
     IN /\ pc' = [u \in Threads |->
                    IF u = t \/ u \in gone THEN "done"
                    ELSE IF u = Waiter THEN "idle" ELSE pc[u]]
        /\ href' = [u \in Threads |->
                      IF u = t \/ u \in gone THEN 0 ELSE href[u]]
        /\ stopErr' = [u \in Threads |->
                         IF u \in gone THEN "nil" ELSE stopErr[u]]
        /\ late' = [u \in Threads |-> IF u \in gone THEN FALSE ELSE late[u]]
  /\ cw' = [cw EXCEPT ![Waiter] = "none"]
  /\ waitErr' = [waitErr EXCEPT ![t] = "nil"]
  /\ err' = [err EXCEPT ![t] = "nil"]
  /\ UNCHANGED <<jobs, calls, modules, parsed>>

\* RPITX.Stop: not-executing when idle (the call has returned: "st_ret"),
\* else process.Stop on the active handle.
ExecutorStop(t) ==
  /\ t \in StopThreads /\ pc[t] = "idle" /\ MayInvoke(t)
  /\ IF ~isExecuting \/ process = 0
     THEN /\ stopErr' = [stopErr EXCEPT ![t] = ErrNotExecuting]
          /\ pc' = [pc EXCEPT ![t] = "st_ret"]
          /\ UNCHANGED <<href, late>>
     ELSE /\ href' = [href EXCEPT ![t] = process]
          /\ late' = [late EXCEPT ![t] = waitReturned]
          /\ stopErr' = [stopErr EXCEPT ![t] = "nil"]
          /\ pc' = [pc EXCEPT ![t] = "st_once"]
  /\ calls' = calls + 1
  /\ UNCHANGED <<modules, parsed>>
  /\ UNCHANGED <<isExecuting, process, jobs, osVars, handleVars, obsVars, cw,
                 err, waitErr>>
  /\ UNCHANGED lineVars

\* A Stream that builds the new registry from a copy taken before a
\* concurrent registration was stored: the registration before it is lost.
Stream_LosesPrevious(so, se) ==
  /\ streamChans' = Append(SubSeq(streamChans, 1, Len(streamChans) - 1),
                           [reg |-> regCount + 1, stdout |-> so, stderr |-> se])
  /\ regCount' = regCount + 1
  /\ regAt' = [regAt EXCEPT ![regCount + 1] = written]

\* process.Stream: append one registration under streamMu.
Stream(so, se) ==
  /\ streamChans' = Append(streamChans,
                           [reg |-> regCount + 1, stdout |-> so, stderr |-> se])
  /\ regCount' = regCount + 1
  /\ regAt' = [regAt EXCEPT ![regCount + 1] = written]

\* Faulty variant of StreamOutputs: the sinks are registered without looking
\* at the Execution Slot.
StreamOutputs_NoIdleCheck ==
  /\ calls < MaxCalls
  /\ calls' = calls + 1
  /\ UNCHANGED <<modules, parsed>>
  /\ \E sinks \in SinkPairs :
       IF FALSE
       THEN UNCHANGED <<streamChans, regCount, regAt>>
       ELSE Stream(sinks[1], sinks[2])
  /\ UNCHANGED <<written, lineCount, reader, draining, delivered, sinkLen>>
  /\ UNCHANGED <<isExecuting, process, jobs, osVars, timeoutCtx, cancelCalled,
                 cmdWaitOnce, cmdWaitResult, waitCh, stopOnce, doneCh,
                 closedSinks, stopCtxDone, callerCtxDone, done, cmdWaitCalls, termSent,
                 killSent, killCalls, bodyRuns, performer, perfGrace, killedAlive, termAlive, selected, closedAt, waitReturned,
                 threadVars, discarding>>

\* RPITX.StreamOutputs: no-op when idle, else process.Stream on the handle.
StreamOutputs ==
  /\ calls < MaxCalls
  /\ calls' = calls + 1
  /\ UNCHANGED <<modules, parsed>>
  /\ \E sinks \in SinkPairs :
       IF ~isExecuting \/ process = 0
       THEN UNCHANGED <<streamChans, regCount, regAt>>
       ELSE Stream(sinks[1], sinks[2])
  /\ UNCHANGED <<written, lineCount, reader, draining, delivered, sinkLen>>
  /\ UNCHANGED <<isExecuting, process, jobs, osVars, timeoutCtx, cancelCalled,
                 cmdWaitOnce, cmdWaitResult, waitCh, stopOnce, doneCh,
                 closedSinks, stopCtxDone, callerCtxDone, done, cmdWaitCalls, termSent,
                 killSent, killCalls, bodyRuns, performer, perfGrace, killedAlive, termAlive, selected, closedAt, waitReturned,
                 threadVars, discarding>>

\* ------------------------------------------------------------ environment
\* The process ends by itself, cleanly or with a failure status.
ProcExit ==
  /\ procState = "running"
  /\ \E st \in {"exit0", "exit1"} : exitStatus' = st
  /\ procState' = "zombie"
  /\ termPending' = FALSE
  /\ UNCHANGED <<execVars, ctxKilled, handleVars, obsVars, threadVars>>
  /\ UNCHANGED lineVars

\* The process dies from a delivered SIGTERM.
ProcTerminated ==
  /\ procState = "running" /\ termPending
  /\ exitStatus' = "sigterm"
  /\ procState' = "zombie"
  /\ termPending' = FALSE
  /\ UNCHANGED <<execVars, ctxKilled, handleVars, obsVars, threadVars>>
  /\ UNCHANGED lineVars

\* The exited child is reaped outside the handle: cmd.Wait will report
\* "waitid: no child processes".
ReapedElsewhere ==
  /\ procState = "zombie"
  /\ procState' = "stolen"
  /\ exitStatus' = "none"
  /\ UNCHANGED <<execVars, termPending, ctxKilled, handleVars,
                 obsVars, threadVars>>
  /\ UNCHANGED lineVars

\* Faulty variant of DeadlineExceeded: the command is not bound to the
\* timeout context, so the deadline passes without the process being killed.
DeadlineExceeded_NoKill ==
  /\ timeoutCtx \in {"armed", "inherited"}
  /\ \/ procState \in {"running", "zombie"}
     \/ \E t \in ExecThreads : pc[t] \in {"w_cmdwait", "w_classify"}
  /\ timeoutCtx' = "expired"
  /\ UNCHANGED <<ctxKilled, procState, exitStatus, termPending>>
  /\ UNCHANGED <<execVars, cancelCalled, cmdWaitOnce, cmdWaitResult, waitCh,
                 stopOnce, doneCh, streamChans, closedSinks, regCount,
                 stopCtxDone, callerCtxDone, done, obsVars, threadVars, discarding>>
  /\ UNCHANGED lineVars

\* The deadline of timeoutCtx passes: exec's context watcher kills the
\* process if it has not been waited for yet.  Once the process is gone and
\* Wait has mapped its outcome nothing reads the context any more.
DeadlineExceeded ==
  /\ timeoutCtx \in {"armed", "inherited"}
  /\ \/ procState \in {"running", "zombie"}
     \/ \E t \in ExecThreads : pc[t] \in {"w_cmdwait", "w_classify"}
  /\ timeoutCtx' = "expired"
  /\ IF procState \in {"running", "zombie"}
     THEN /\ ctxKilled' = TRUE
          /\ procState' = "zombie"
          /\ exitStatus' = IF procState = "running" THEN "sigkill"
                           ELSE exitStatus
          /\ termPending' = FALSE
     ELSE UNCHANGED <<ctxKilled, procState, exitStatus, termPending>>
  /\ UNCHANGED <<execVars, cancelCalled, cmdWaitOnce, cmdWaitResult, waitCh,
                 stopOnce, doneCh, streamChans, closedSinks, regCount,
                 stopCtxDone, callerCtxDone, done, obsVars, threadVars, discarding>>
  /\ UNCHANGED lineVars

\* ---------------------------------------------------------------- cmdWait
InCmdWait(t) == pc[t] \in {"w_cmdwait", "fk_cmdwait", "g_cmdwait"}

\* "<-p.waitCh; return p.cmdWaitResult" and the caller's use of the value:
\* Wait keeps it for its outcome mapping, forceKill classifies it, the
\* goroutine of killProcess sends it on done ("done <- p.cmdWait()"; the
\* buffered value is kept only while killProcess can still receive it).
cmdWaitReturn(t, result) ==
  /\ cw' = [cw EXCEPT ![t] = "none"]
  /\ CASE pc[t] = "w_cmdwait" ->
            /\ err' = [err EXCEPT ![t] = result]
            /\ pc' = [pc EXCEPT ![t] = "w_classify"]
            /\ UNCHANGED <<stopErr, done>>
       [] pc[t] = "fk_cmdwait" ->
            /\ stopErr' = [stopErr EXCEPT ![t] = ForceKillWaitResult(result)]
            /\ pc' = [pc EXCEPT ![t] = "cleanup"]
            /\ UNCHANGED <<err, done>>
       [] OTHER ->
            /\ done' = IF \E c \in Callers : pc[c] = "kp_select"
                       THEN result ELSE done
            /\ pc' = [pc EXCEPT ![t] = "idle"]
            /\ UNCHANGED <<err, stopErr>>

\* Faulty variant of cmdWaitOnceDo: no one-shot guard, every caller runs the
\* body.
cmdWaitOnceDo_NoOnce(t) ==
  /\ InCmdWait(t) /\ cw[t] = "once"
  /\ IF TRUE
     THEN /\ cmdWaitOnce' = "running"
          /\ cmdWaitCalls' = cmdWaitCalls + 1
          /\ cw' = [cw EXCEPT ![t] = "run"]
          /\ UNCHANGED <<pc, err, stopErr, done>>
     ELSE /\ waitCh
          /\ cmdWaitReturn(t, cmdWaitResult)
          /\ UNCHANGED <<cmdWaitOnce, cmdWaitCalls>>
  /\ UNCHANGED <<execVars, osVars, timeoutCtx, cancelCalled, cmdWaitResult,
                 waitCh, stopOnce, doneCh, streamChans, closedSinks, regCount,
                 stopCtxDone, callerCtxDone, termSent, killSent, killCalls, bodyRuns,
                 performer, perfGrace, killedAlive, selected,
                 closedAt, waitReturned, href, waitErr, termAlive,
                 late, discarding>>
  /\ UNCHANGED lineVars

\* cmdWaitOnce.Do: the first caller runs the body, callers arriving while
\* it runs block, callers arriving after it skip it and return the stored
\* result (waitCh is closed by then).
cmdWaitOnceDo(t) ==
  /\ InCmdWait(t) /\ cw[t] = "once"
  /\ cmdWaitOnce # "running"
  /\ IF cmdWaitOnce = "idle"
     THEN /\ cmdWaitOnce' = "running"
          /\ cmdWaitCalls' = cmdWaitCalls + 1
          /\ cw' = [cw EXCEPT ![t] = "run"]
          /\ UNCHANGED <<pc, err, stopErr, done>>
     ELSE /\ waitCh
          /\ cmdWaitReturn(t, cmdWaitResult)
          /\ UNCHANGED <<cmdWaitOnce, cmdWaitCalls>>
  /\ UNCHANGED <<execVars, osVars, timeoutCtx, cancelCalled, cmdWaitResult,
                 waitCh, stopOnce, doneCh, streamChans, closedSinks, regCount,
                 stopCtxDone, callerCtxDone, termSent, killSent, killCalls, bodyRuns,
                 performer, perfGrace, killedAlive, selected,
                 closedAt, waitReturned, href, waitErr, termAlive,
                 late, discarding>>
  /\ UNCHANGED lineVars

\* Body of cmdWaitOnce: cmd.Wait() returns once the process has ended; the
\* result is stored, waitCh is closed and the caller returns the result.
cmdWaitBody(t) ==
  /\ InCmdWait(t) /\ cw[t] = "run"
  /\ procState \in {"zombie", "stolen"}
  /\ cmdWaitResult' = CmdWaitError(procState, exitStatus, ctxKilled)
  /\ procState' = "reaped"
  /\ exitStatus' = "none"
  /\ ctxKilled' = FALSE
  /\ waitCh' = TRUE
  /\ cmdWaitOnce' = "done"
  /\ cmdWaitReturn(t, cmdWaitResult')
  /\ UNCHANGED <<execVars, termPending, timeoutCtx,
                 cancelCalled, stopOnce, doneCh, streamChans, closedSinks,
                 regCount, stopCtxDone, callerCtxDone, obsVars, href, waitErr, late,
                 discarding>>
  /\ UNCHANGED lineVars

\* Faulty variant of Wait: it returns after mapping the outcome, without the
\* deferred p.Stop.
Wait_NoDeferredStop(t) ==
  /\ pc[t] = "w_classify"
  /\ waitErr' = [waitErr EXCEPT ![t] = WaitResult(err[t], timeoutCtx)]
  /\ stopErr' = [stopErr EXCEPT ![t] = "nil"]
  /\ pc' = [pc EXCEPT ![t] = "e_ret"]
  /\ waitReturned' = TRUE
  /\ UNCHANGED <<execVars, osVars, handleVars, cmdWaitCalls, termSent,
                 killSent, killCalls, bodyRuns, performer, perfGrace,
                 killedAlive, termAlive, selected, closedAt, cw, href, err,
                 late>>
  /\ UNCHANGED lineVars

\* ----------------------------------------------------------- process.Wait
\* After cmdWait: map the exit to Wait's outcome, then run the deferred
\* p.Stop(context.Background(), 0).
Wait(t) ==
  /\ pc[t] = "w_classify"
  /\ waitErr' = [waitErr EXCEPT ![t] = WaitResult(err[t], timeoutCtx)]
  /\ stopErr' = [stopErr EXCEPT ![t] = "nil"]
  /\ pc' = [pc EXCEPT ![t] = "st_once"]
  /\ UNCHANGED <<execVars, osVars, handleVars, obsVars, cw, href, err,
                 late>>
  /\ UNCHANGED lineVars

\* The timeout argument of a process.Stop call: RPITX.Stop passes the grace
\* period of its caller, Wait's deferred call passes 0.
StopTimeouts(t) == IF t \in ExecThreads THEN {0} ELSE Graces

\* ----------------------------------------------------------- process.Stop
\* A closeStreamChannels that closes the active sinks and leaves them in the
\* registry.
closeStreamChannels_KeepsRegistry ==
  /\ closedSinks' = closedSinks \cup ActiveSinks(streamChans)
  /\ streamChans' = streamChans

\* A closeStreamChannels that closes both sinks of every registration, nil
\* or not.
closeStreamChannels_ClosesInactive ==
  /\ closedSinks' = closedSinks \cup
                      ({ streamChans[i].reg : i \in DOMAIN streamChans }
                         \X Streams)
  /\ streamChans' = <<>>

\* closeStreamChannels: close every still-active sink, drop the registry.
closeStreamChannels ==
  /\ closedSinks' = closedSinks \cup ActiveSinks(streamChans)
  /\ streamChans' = <<>>

\* process.Stop returns.  For the deferred call of Wait this is where Wait
\* returns to Exec (with waitErr; the deferred call's own result is dropped).
\* For RPITX.Stop the call is over ("st_ret": returned stopErr); a call that
\* returns on the handle of a finished job is not tracked further.
stopReturn(t) ==
  IF t \in ExecThreads
  THEN /\ pc' = [pc EXCEPT ![t] = "e_ret"]
       /\ stopErr' = [stopErr EXCEPT ![t] = "nil"]
       /\ waitReturned' = TRUE
       /\ UNCHANGED <<href, late>>
  ELSE IF process = href[t]
  THEN /\ pc' = [pc EXCEPT ![t] = "st_ret"]
       /\ UNCHANGED <<stopErr, waitReturned, href, late>>
  ELSE /\ pc' = [pc EXCEPT ![t] = "done"]
       /\ href' = [href EXCEPT ![t] = 0]
       /\ late' = [late EXCEPT ![t] = FALSE]
       /\ UNCHANGED <<stopErr, waitReturned>>

\* Faulty variant of forceKill: os.ErrProcessDone from Kill is returned to the
\* caller instead of being taken as success.
forceKill_DoneIsError(t) ==
  /\ killCalls' = killCalls + 1
  /\ IF ProcessSignal(procState) = ErrProcessDone
     THEN /\ stopErr' = [stopErr EXCEPT ![t] = ErrProcessDone]
          /\ pc' = [pc EXCEPT ![t] = "cleanup"]
          /\ UNCHANGED <<killSent, killedAlive, procState, exitStatus,
                         termPending, cw>>
     ELSE /\ killSent' = killSent + 1
          /\ killedAlive' = (procState = "running")
          /\ procState' = "zombie"
          /\ exitStatus' = IF procState = "running" THEN "sigkill"
                           ELSE exitStatus
          /\ termPending' = FALSE
          /\ pc' = [pc EXCEPT ![t] = "fk_cmdwait"]
          /\ cw' = [cw EXCEPT ![t] = "once"]
          /\ UNCHANGED stopErr

\* forceKill up to its cmdWait: cmd.Process.Kill().  A process that was
\* already waited for yields nil; otherwise SIGKILL is delivered and cmdWait
\* follows (its result is classified in cmdWaitReturn).
forceKill(t) ==
  /\ killCalls' = killCalls + 1
  /\ IF ProcessSignal(procState) = ErrProcessDone
     THEN /\ stopErr' = [stopErr EXCEPT ![t] = "nil"]
          /\ pc' = [pc EXCEPT ![t] = "cleanup"]
          /\ UNCHANGED <<killSent, killedAlive, procState, exitStatus,
                         termPending, cw>>
     ELSE /\ killSent' = killSent + 1
          /\ killedAlive' = (procState = "running")
          /\ procState' = "zombie"
          /\ exitStatus' = IF procState = "running" THEN "sigkill"
                           ELSE exitStatus
          /\ termPending' = FALSE
          /\ pc' = [pc EXCEPT ![t] = "fk_cmdwait"]
          /\ cw' = [cw EXCEPT ![t] = "once"]
          /\ UNCHANGED stopErr

\* Faulty variant of killProcess: only a negative timeout skips the graceful
\* phase.
killProcess_ZeroIsGrace(t, timeout) ==
  IF timeout < 0
  THEN /\ forceKill(t)
       /\ UNCHANGED <<termSent, termAlive, stopCtxDone, callerCtxDone>>
  ELSE IF ProcessSignal(procState) # "nil"
  THEN /\ forceKill(t)
       /\ UNCHANGED <<termSent, termAlive, stopCtxDone, callerCtxDone>>
  ELSE /\ termSent' = termSent + 1
       /\ termPending' = (procState = "running")
       /\ termAlive' = (procState = "running")
       /\ stopCtxDone' = FALSE /\ callerCtxDone' = FALSE
       /\ pc' = [pc EXCEPT ![t] = "kp_select", ![Waiter] = "g_cmdwait"]
       /\ cw' = [cw EXCEPT ![Waiter] = "once"]
       /\ UNCHANGED <<killCalls, killSent, killedAlive, procState,
                      exitStatus, stopErr>>

\* A killProcess that does not look at the result of Signal(SIGTERM) and
\* waits for the grace period in every case.
killProcess_IgnoresSignalError(t, timeout) ==
  IF timeout <= 0
  THEN /\ forceKill(t)
       /\ UNCHANGED <<termSent, termAlive, stopCtxDone, callerCtxDone>>
  ELSE /\ termSent' = termSent + 1
       /\ termPending' = (procState = "running")
       /\ termAlive' = (procState = "running")
       /\ stopCtxDone' = FALSE /\ callerCtxDone' = FALSE
       /\ pc' = [pc EXCEPT ![t] = "kp_select", ![Waiter] = "g_cmdwait"]
       /\ cw' = [cw EXCEPT ![Waiter] = "once"]
       /\ UNCHANGED <<killCalls, killSent, killedAlive, procState,
                      exitStatus, stopErr>>

\* killProcess up to its select: no grace period goes straight to forceKill;
\* otherwise SIGTERM is sent (forceKill if it cannot be delivered), stopCtx
\* is created and the goroutine running cmdWait is launched.
killProcess(t, timeout) ==
  IF timeout <= 0
  THEN /\ forceKill(t)
       /\ UNCHANGED <<termSent, termAlive, stopCtxDone, callerCtxDone>>
  ELSE IF ProcessSignal(procState) # "nil"
  THEN /\ forceKill(t)
       /\ UNCHANGED <<termSent, termAlive, stopCtxDone, callerCtxDone>>
  ELSE /\ termSent' = termSent + 1
       /\ termPending' = (procState = "running")
       /\ termAlive' = (procState = "running")
       /\ stopCtxDone' = FALSE /\ callerCtxDone' = FALSE
       /\ pc' = [pc EXCEPT ![t] = "kp_select", ![Waiter] = "g_cmdwait"]
       /\ cw' = [cw EXCEPT ![Waiter] = "once"]
       /\ UNCHANGED <<killCalls, killSent, killedAlive, procState,
                      exitStatus, stopErr>>

\* Faulty variant of stopOnceDo: no one-shot guard, every caller runs the
\* body.
stopOnceDo_NoOnce(t) ==
  /\ pc[t] = "st_once"
  /\ IF TRUE
     THEN /\ href[t] = jobs
          /\ stopOnce' = [stopOnce EXCEPT ![href[t]] = "running"]
          /\ bodyRuns' = bodyRuns + 1
          /\ performer' = t
          /\ \E timeout \in StopTimeouts(t) :
               /\ perfGrace' = timeout
               /\ IF procState # "none"
                  THEN killProcess(t, timeout)
                  ELSE /\ pc' = [pc EXCEPT ![t] = "cleanup"]
                       /\ UNCHANGED <<osVars, stopCtxDone, callerCtxDone, termSent, killSent,
                                      killCalls, killedAlive, termAlive, cw,
                                      stopErr>>
          /\ UNCHANGED <<waitReturned, href, late>>
     ELSE /\ stopReturn(t)
          /\ UNCHANGED <<osVars, stopOnce, stopCtxDone, callerCtxDone, termSent, killSent,
                         killCalls, bodyRuns, performer, perfGrace,
                         killedAlive, termAlive, cw>>
  /\ UNCHANGED <<execVars, ctxKilled, timeoutCtx, cancelCalled, cmdWaitOnce,
                 cmdWaitResult, waitCh, doneCh, streamChans, closedSinks,
                 regCount, discarding, done, cmdWaitCalls, selected,
                 closedAt, err, waitErr>>
  /\ UNCHANGED lineVars

\* A one-shot gate that lets the callers that arrive while the body runs go
\* on at once instead of holding them until the body has finished.
stopOnceDo_NoBlock(t) ==
  /\ pc[t] = "st_once"
  /\ IF stopOnce[href[t]] = "idle"
     THEN /\ href[t] = jobs
          /\ stopOnce' = [stopOnce EXCEPT ![href[t]] = "running"]
          /\ bodyRuns' = bodyRuns + 1
          /\ performer' = t
          /\ \E timeout \in StopTimeouts(t) :
               /\ perfGrace' = timeout
               /\ IF procState # "none"
                  THEN killProcess(t, timeout)
                  ELSE /\ pc' = [pc EXCEPT ![t] = "cleanup"]
                       /\ UNCHANGED <<osVars, stopCtxDone, callerCtxDone, termSent, killSent,
                                      killCalls, killedAlive, termAlive, cw,
                                      stopErr>>
          /\ UNCHANGED <<waitReturned, href, late>>
     ELSE /\ stopReturn(t)
          /\ UNCHANGED <<osVars, stopOnce, stopCtxDone, callerCtxDone, termSent, killSent,
                         killCalls, bodyRuns, performer, perfGrace,
                         killedAlive, termAlive, cw>>
  /\ UNCHANGED <<execVars, ctxKilled, timeoutCtx, cancelCalled, cmdWaitOnce,
                 cmdWaitResult, waitCh, doneCh, streamChans, closedSinks,
                 regCount, discarding, done, cmdWaitCalls, selected,
                 closedAt, err, waitErr>>
  /\ UNCHANGED lineVars

\* stopOnce.Do: the first caller on a handle runs the body (killProcess when
\* the process has a PID, then the cleanup); callers arriving while it runs
\* block; later callers skip it and return their zero stopErr.
stopOnceDo(t) ==
  /\ pc[t] = "st_once"
  /\ stopOnce[href[t]] # "running"
  /\ IF stopOnce[href[t]] = "idle"
     THEN /\ href[t] = jobs
          /\ stopOnce' = [stopOnce EXCEPT ![href[t]] = "running"]
          /\ bodyRuns' = bodyRuns + 1
          /\ performer' = t
          /\ \E timeout \in StopTimeouts(t) :
               /\ perfGrace' = timeout
               /\ IF procState # "none"
                  THEN killProcess(t, timeout)
                  ELSE /\ pc' = [pc EXCEPT ![t] = "cleanup"]
                       /\ UNCHANGED <<osVars, stopCtxDone, callerCtxDone, termSent, killSent,
                                      killCalls, killedAlive, termAlive, cw,
                                      stopErr>>
          /\ UNCHANGED <<waitReturned, href, late>>
     ELSE /\ stopReturn(t)
          /\ UNCHANGED <<osVars, stopOnce, stopCtxDone, callerCtxDone, termSent, killSent,
                         killCalls, bodyRuns, performer, perfGrace,
                         killedAlive, termAlive, cw>>
  /\ UNCHANGED <<execVars, ctxKilled, timeoutCtx, cancelCalled, cmdWaitOnce,
                 cmdWaitResult, waitCh, doneCh, streamChans, closedSinks,
                 regCount, discarding, done, cmdWaitCalls, selected,
                 closedAt, err, waitErr>>
  /\ UNCHANGED lineVars

\* stopCtx, derived from the caller's ctx with the grace period as timeout,
\* becomes done while killProcess is in its select: the grace period ran out
\* or the caller's ctx is done.
StopCtxDone ==
  /\ \E t \in Callers : pc[t] = "kp_select"
  /\ ~stopCtxDone
  /\ stopCtxDone' = TRUE
  /\ \E byCaller \in BOOLEAN : callerCtxDone' = byCaller
  /\ UNCHANGED <<execVars, osVars, timeoutCtx, cancelCalled, cmdWaitOnce,
                 cmdWaitResult, waitCh, stopOnce, doneCh, streamChans,
                 closedSinks, regCount, discarding, done, obsVars,
                 threadVars>>
  /\ UNCHANGED lineVars

\* A select whose timeout branch is ready at once: the escalation does not
\* wait for stopCtx.
killProcessSelect_NoGrace(t) ==
  /\ pc[t] = "kp_select"
  /\ \/ /\ done # "empty"
        /\ stopErr' = [stopErr EXCEPT ![t] = KillProcessDoneResult(done)]
        /\ done' = "empty"
        /\ selected' = "done"
        /\ pc' = [pc EXCEPT ![t] = "cleanup"]
        /\ UNCHANGED <<osVars, killCalls, killSent, killedAlive, cw>>
     \/ /\ TRUE
        /\ selected' = "ctx"
        /\ forceKill(t)
        /\ UNCHANGED <<ctxKilled, done>>
  /\ UNCHANGED <<execVars, timeoutCtx, cancelCalled, cmdWaitOnce,
                 cmdWaitResult, waitCh, stopOnce, doneCh, streamChans,
                 closedSinks, regCount, discarding, stopCtxDone, callerCtxDone,
                 cmdWaitCalls, termSent, bodyRuns, performer, perfGrace,
                 termAlive, closedAt, waitReturned, href, err,
                 waitErr, late>>
  /\ UNCHANGED lineVars

\* A select whose timeout branch looks at the grace timer alone, as if
\* stopCtx were not derived from the caller's ctx.
killProcessSelect_TimerOnly(t) ==
  /\ pc[t] = "kp_select"
  /\ \/ /\ done # "empty"
        /\ stopErr' = [stopErr EXCEPT ![t] = KillProcessDoneResult(done)]
        /\ done' = "empty"
        /\ selected' = "done"
        /\ pc' = [pc EXCEPT ![t] = "cleanup"]
        /\ UNCHANGED <<osVars, killCalls, killSent, killedAlive, cw>>
     \/ /\ stopCtxDone /\ ~callerCtxDone
        /\ selected' = "ctx"
        /\ forceKill(t)
        /\ UNCHANGED <<ctxKilled, done>>
  /\ UNCHANGED <<execVars, timeoutCtx, cancelCalled, cmdWaitOnce,
                 cmdWaitResult, waitCh, stopOnce, doneCh, streamChans,
                 closedSinks, regCount, discarding, stopCtxDone, callerCtxDone,
                 cmdWaitCalls, termSent, bodyRuns, performer, perfGrace,
                 termAlive, closedAt, waitReturned, href, err,
                 waitErr, late>>
  /\ UNCHANGED lineVars

\* killProcess' select: the process ended (classify its exit) or stopCtx is
\* done (forceKill).  When both are ready either branch may be taken.
killProcessSelect(t) ==
  /\ pc[t] = "kp_select"
  /\ \/ /\ done # "empty"
        /\ stopErr' = [stopErr EXCEPT ![t] = KillProcessDoneResult(done)]
        /\ done' = "empty"
        /\ selected' = "done"
        /\ pc' = [pc EXCEPT ![t] = "cleanup"]
        /\ UNCHANGED <<osVars, killCalls, killSent, killedAlive, cw>>
     \/ /\ stopCtxDone
        /\ selected' = "ctx"
        /\ forceKill(t)
        /\ UNCHANGED <<ctxKilled, done>>
  /\ UNCHANGED <<execVars, timeoutCtx, cancelCalled, cmdWaitOnce,
                 cmdWaitResult, waitCh, stopOnce, doneCh, streamChans,
                 closedSinks, regCount, discarding, stopCtxDone, callerCtxDone,
                 cmdWaitCalls, termSent, bodyRuns, performer, perfGrace,
                 termAlive, closedAt, waitReturned, href, err,
                 waitErr, late>>
  /\ UNCHANGED lineVars

\* broadcastToStdout / broadcastToStderr, run by discardInternalOutput for a
\* line of output: every active sink of that stream is offered the line; the
\* sinks that cannot take it (blocked) are set to nil in the registry.  Only
\* a delivery that drops a sink changes the state.
broadcast(stream, blocked) ==
  /\ discarding
  /\ blocked # {}
  /\ blocked \subseteq { i \in DOMAIN streamChans : streamChans[i][stream] }
  /\ streamChans' = [i \in DOMAIN streamChans |->
                       IF i \in blocked
                       THEN [streamChans[i] EXCEPT ![stream] = FALSE]
                       ELSE streamChans[i]]
  /\ UNCHANGED <<execVars, osVars, timeoutCtx, cancelCalled, cmdWaitOnce,
                 cmdWaitResult, waitCh, stopOnce, doneCh, closedSinks,
                 regCount, discarding, stopCtxDone, callerCtxDone, done, obsVars, threadVars>>
  /\ UNCHANGED lineVars

\* discardInternalOutput returns (doneCh closed, or the output pipes reached
\* end of file after the process ended); its deferred closeStreamChannels
\* runs.
discardInternalOutput ==
  /\ discarding
  /\ doneCh > 0 \/ procState \in {"zombie", "reaped", "stolen"}
  /\ closeStreamChannels
  /\ discarding' = FALSE
  /\ UNCHANGED <<execVars, osVars, timeoutCtx, cancelCalled, cmdWaitOnce,
                 cmdWaitResult, waitCh, stopOnce, doneCh, regCount,
                 stopCtxDone, callerCtxDone, done, obsVars, threadVars>>
  /\ UNCHANGED lineVars

\* A body of Stop that leaves when killProcess failed, before the done
\* signal and the closing of the sinks.
cleanup_ReturnsOnKillError(t) ==
  /\ pc[t] = "cleanup"
  /\ cancelCalled' = TRUE
  /\ timeoutCtx' = IF timeoutCtx = "armed" THEN "none" ELSE timeoutCtx
  /\ IF timeoutCtx = "armed" /\ procState \in {"running", "zombie"}
     THEN /\ ctxKilled' = TRUE
          /\ procState' = "zombie"
          /\ exitStatus' = IF procState = "running" THEN "sigkill"
                           ELSE exitStatus
          /\ termPending' = FALSE
     ELSE UNCHANGED <<ctxKilled, procState, exitStatus, termPending>>
  /\ IF stopErr[t] \in {"nil", ErrTerminated, ErrKilled}
     THEN /\ doneCh' = doneCh + 1
          /\ closeStreamChannels
     ELSE UNCHANGED <<doneCh, streamChans, closedSinks>>
  /\ closedAt' = regCount
  /\ stopOnce' = [stopOnce EXCEPT ![href[t]] = "done"]
  /\ perfGrace' = 0 /\ killedAlive' = FALSE /\ termAlive' = FALSE
  /\ selected' = "none"
  /\ stopReturn(t)
  /\ UNCHANGED <<execVars, cmdWaitOnce, cmdWaitResult, waitCh, regCount,
                 discarding, stopCtxDone, callerCtxDone, done, cmdWaitCalls, termSent,
                 killSent, killCalls, bodyRuns, performer, cw, err, waitErr>>
  /\ UNCHANGED lineVars

\* A shutdown that can be performed again: the gate is open once more when
\* the body has run.
cleanup_ReopensGate(t) ==
  /\ pc[t] = "cleanup"
  /\ cancelCalled' = TRUE
  /\ timeoutCtx' = IF timeoutCtx = "armed" THEN "none" ELSE timeoutCtx
  /\ IF timeoutCtx = "armed" /\ procState \in {"running", "zombie"}
     THEN /\ ctxKilled' = TRUE
          /\ procState' = "zombie"
          /\ exitStatus' = IF procState = "running" THEN "sigkill"
                           ELSE exitStatus
          /\ termPending' = FALSE
     ELSE UNCHANGED <<ctxKilled, procState, exitStatus, termPending>>
  /\ doneCh' = doneCh + 1
  /\ closeStreamChannels
  /\ closedAt' = regCount
  /\ stopOnce' = [stopOnce EXCEPT ![href[t]] = "idle"]
  /\ perfGrace' = 0 /\ killedAlive' = FALSE /\ termAlive' = FALSE
  /\ selected' = "none"
  /\ stopReturn(t)
  /\ UNCHANGED <<execVars, cmdWaitOnce, cmdWaitResult, waitCh, regCount,
                 discarding, stopCtxDone, callerCtxDone, done, cmdWaitCalls, termSent,
                 killSent, killCalls, bodyRuns, performer, cw, err, waitErr>>
  /\ UNCHANGED lineVars

\* A Wait whose result is named and overwritten by its deferred Stop: Wait
\* returns what Stop returned.
cleanup_StopResultWins(t) ==
  /\ pc[t] = "cleanup"
  /\ cancelCalled' = TRUE
  /\ timeoutCtx' = IF timeoutCtx = "armed" THEN "none" ELSE timeoutCtx
  /\ IF timeoutCtx = "armed" /\ procState \in {"running", "zombie"}
     THEN /\ ctxKilled' = TRUE
          /\ procState' = "zombie"
          /\ exitStatus' = IF procState = "running" THEN "sigkill"
                           ELSE exitStatus
          /\ termPending' = FALSE
     ELSE UNCHANGED <<ctxKilled, procState, exitStatus, termPending>>
  /\ doneCh' = doneCh + 1
  /\ closeStreamChannels
  /\ closedAt' = regCount
  /\ stopOnce' = [stopOnce EXCEPT ![href[t]] = "done"]
  /\ perfGrace' = 0 /\ killedAlive' = FALSE /\ termAlive' = FALSE
  /\ selected' = "none"
  /\ stopReturn(t)
  /\ UNCHANGED <<execVars, cmdWaitOnce, cmdWaitResult, waitCh, regCount,
                 discarding, stopCtxDone, callerCtxDone, done, cmdWaitCalls, termSent,
                 killSent, killCalls, bodyRuns, performer, cw, err>>
  /\ UNCHANGED lineVars
  /\ waitErr' = [waitErr EXCEPT ![t] =
                   IF t \in ExecThreads THEN stopErr[t] ELSE @]

\* Rest of the stopOnce body: p.cancelTimeout() (cancelling a context that is
\* still armed also makes exec's watcher kill a process not waited for yet),
\* close(p.doneCh), p.closeStreamChannels().  The body returns, stopOnce is
\* marked done (releasing the blocked callers) and Stop returns stopErr.
cleanup(t) ==
  /\ pc[t] = "cleanup"
  /\ cancelCalled' = TRUE
  /\ timeoutCtx' = IF timeoutCtx = "armed" THEN "none" ELSE timeoutCtx
  /\ IF timeoutCtx = "armed" /\ procState \in {"running", "zombie"}
     THEN /\ ctxKilled' = TRUE
          /\ procState' = "zombie"
          /\ exitStatus' = IF procState = "running" THEN "sigkill"
                           ELSE exitStatus
          /\ termPending' = FALSE
     ELSE UNCHANGED <<ctxKilled, procState, exitStatus, termPending>>
  /\ doneCh' = doneCh + 1
  /\ closeStreamChannels
  /\ closedAt' = regCount
  /\ stopOnce' = [stopOnce EXCEPT ![href[t]] = "done"]
  /\ perfGrace' = 0 /\ killedAlive' = FALSE /\ termAlive' = FALSE
  /\ selected' = "none"
  /\ stopReturn(t)
  /\ UNCHANGED <<execVars, cmdWaitOnce, cmdWaitResult, waitCh, regCount,
                 discarding, stopCtxDone, callerCtxDone, done, cmdWaitCalls, termSent,
                 killSent, killCalls, bodyRuns, performer, cw, err, waitErr>>
  /\ UNCHANGED lineVars

\* ------------------------------------------------- output lines, by line
\* The process writes one more line on a stream (into the OS pipe).
procWrite(s) ==
  /\ procState = "running"
  /\ written["stdout"] + written["stderr"] < MaxLines
  /\ written' = [written EXCEPT ![s] = @ + 1]
  /\ UNCHANGED <<execVars, osVars, handleVars, obsVars, threadVars, lineCount,
                 reader, draining, delivered, sinkLen, regAt>>

\* A reader that hands over the line it has already sent once more instead
\* of scanning the next one.
readScan_Resend(s) ==
  /\ reader[s] = "scan"
  /\ \/ /\ lineCount[s] < written[s] \/ lineCount[s] > 0
        /\ lineCount' = [lineCount EXCEPT ![s] = IF @ = 0 THEN 1 ELSE @]
        /\ reader' = [reader EXCEPT ![s] = "send"]
     \/ /\ procState \in {"zombie", "stolen", "reaped"}
        /\ lineCount[s] = written[s]
        /\ reader' = [reader EXCEPT ![s] = "done"]
        /\ UNCHANGED lineCount
     \/ /\ procState = "reaped"
        /\ lineCount[s] < written[s]
        /\ reader' = [reader EXCEPT ![s] = "done"]
        /\ UNCHANGED lineCount
  /\ UNCHANGED <<execVars, osVars, handleVars, obsVars, threadVars, written,
                 draining, delivered, sinkLen, regAt>>

\* A reader that takes an empty pipe for the end of the output.
readScan_EofWhileRunning(s) ==
  /\ reader[s] = "scan"
  /\ \/ /\ lineCount[s] < written[s]
        /\ lineCount' = [lineCount EXCEPT ![s] = @ + 1]
        /\ reader' = [reader EXCEPT ![s] = "send"]
     \/ /\ lineCount[s] = written[s]
        /\ reader' = [reader EXCEPT ![s] = "done"]
        /\ UNCHANGED lineCount
     \/ /\ procState = "reaped"
        /\ lineCount[s] < written[s]
        /\ reader' = [reader EXCEPT ![s] = "done"]
        /\ UNCHANGED lineCount
  /\ UNCHANGED <<execVars, osVars, handleVars, obsVars, threadVars, written,
                 draining, delivered, sinkLen, regAt>>

\* readStdout / readStderr, "for scanner.Scan()": the scanner returns the
\* next line and the reader goes to its select; or it reports the end of the
\* pipe (the process ended and everything written was read); or the read
\* fails because cmd.Wait has closed the pipe, and what was not read is lost.
\* In the last two cases the reader returns and closes its internal channel.
readScan(s) ==
  /\ reader[s] = "scan"
  /\ \/ /\ lineCount[s] < written[s]
        /\ lineCount' = [lineCount EXCEPT ![s] = @ + 1]
        /\ reader' = [reader EXCEPT ![s] = "send"]
     \/ /\ procState \in {"zombie", "stolen", "reaped"}
        /\ lineCount[s] = written[s]
        /\ reader' = [reader EXCEPT ![s] = "done"]
        /\ UNCHANGED lineCount
     \/ /\ procState = "reaped"
        /\ lineCount[s] < written[s]
        /\ reader' = [reader EXCEPT ![s] = "done"]
        /\ UNCHANGED lineCount
  /\ UNCHANGED <<execVars, osVars, handleVars, obsVars, threadVars, written,
                 draining, delivered, sinkLen, regAt>>

\* The process writes a burst on one stream.
procWriteBurst(s) ==
  /\ procState = "running"
  /\ written[s] < BurstLines
  /\ written' = [written EXCEPT ![s] = @ + 1]
  /\ UNCHANGED <<execVars, osVars, handleVars, obsVars, threadVars, lineCount,
                 reader, draining, delivered, sinkLen, regAt>>

\* Faulty variant of readDone: the reader's select has no doneCh case.
readDone_NoDoneCase(s) ==
  /\ reader[s] = "send"
  /\ FALSE
  /\ UNCHANGED vars

\* readStdout / readStderr, "case <-p.doneCh": the reader gives up the line
\* it holds, returns and closes its internal channel.
readDone(s) ==
  /\ reader[s] = "send"
  /\ doneCh > 0
  /\ reader' = [reader EXCEPT ![s] = "done"]
  /\ UNCHANGED <<execVars, osVars, handleVars, obsVars, threadVars, written,
                 lineCount, draining, delivered, sinkLen, regAt>>

readStdout == readScan("stdout") \/ readDone("stdout")

readStderr == readScan("stderr") \/ readDone("stderr")

\* A sink of the registry cannot take a line now (it is full).
SinkBlocked(i, s) == sinkLen[streamChans[i].reg][s] >= SinkCap

\* A broadcast that gives up at a sink that cannot take the line: nobody is
\* sent the line when one active sink is full.
Takers_NoneIfBlocked(s) ==
  IF \E j \in DOMAIN streamChans : streamChans[j][s] /\ SinkBlocked(j, s)
  THEN {}
  ELSE { streamChans[i].reg : i \in { j \in DOMAIN streamChans : streamChans[j][s] } }

\* Registrations whose sink of stream s is offered a line and takes it.
Takers(s) ==
  { streamChans[i].reg :
      i \in { j \in DOMAIN streamChans :
                streamChans[j][s] /\ ~SinkBlocked(j, s) } }

\* A broadcast that offers the line to every registered sink with room,
\* inactive or not, and takes a sink that accepts it for active again.
broadcastLine_Reactivates(s, line) ==
  /\ streamChans' = [i \in DOMAIN streamChans |->
                       [streamChans[i] EXCEPT ![s] = ~SinkBlocked(i, s)]]
  /\ delivered' = [r \in Jobs |-> [u \in Streams |->
                      IF u = s /\ \E i \in DOMAIN streamChans :
                                    streamChans[i].reg = r /\ ~SinkBlocked(i, s)
                      THEN Append(delivered[r][u], line)
                      ELSE delivered[r][u]]]
  /\ sinkLen' = [r \in Jobs |-> [u \in Streams |->
                    IF u = s /\ \E i \in DOMAIN streamChans :
                                  streamChans[i].reg = r /\ ~SinkBlocked(i, s)
                    THEN sinkLen[r][u] + 1
                    ELSE sinkLen[r][u]]]

\* A broadcaster that takes a line only when somebody listens.
broadcastLine_NeedsListener(s, line) ==
  /\ streamChans # <<>>
  /\ streamChans' = [i \in DOMAIN streamChans |->
                       IF streamChans[i][s] /\ SinkBlocked(i, s)
                       THEN [streamChans[i] EXCEPT ![s] = FALSE]
                       ELSE streamChans[i]]
  /\ delivered' = [r \in Jobs |-> [u \in Streams |->
                      IF u = s /\ r \in Takers(s)
                      THEN Append(delivered[r][u], line)
                      ELSE delivered[r][u]]]
  /\ sinkLen' = [r \in Jobs |-> [u \in Streams |->
                    IF u = s /\ r \in Takers(s)
                    THEN sinkLen[r][u] + 1
                    ELSE sinkLen[r][u]]]

\* broadcastToStdout / broadcastToStderr under streamMu: every active sink
\* of the stream gets a non-blocking send of the line; a sink that cannot
\* take it is set to nil in the registry.
broadcastLine(s, line) ==
  /\ streamChans' = [i \in DOMAIN streamChans |->
                       IF streamChans[i][s] /\ SinkBlocked(i, s)
                       THEN [streamChans[i] EXCEPT ![s] = FALSE]
                       ELSE streamChans[i]]
  /\ delivered' = [r \in Jobs |-> [u \in Streams |->
                      IF u = s /\ r \in Takers(s)
                      THEN Append(delivered[r][u], line)
                      ELSE delivered[r][u]]]
  /\ sinkLen' = [r \in Jobs |-> [u \in Streams |->
                    IF u = s /\ r \in Takers(s)
                    THEN sinkLen[r][u] + 1
                    ELSE sinkLen[r][u]]]

\* The loop of discardInternalOutput, one pass of its select: doneCh is
\* closed (return; the deferred closeStreamChannels runs); a line is received
\* from internalStdout or internalStderr and broadcast; internalStdout is
\* closed (drainStderr is entered).  A closed internalStderr only makes the
\* loop go round again.
discardSelect ==
  /\ discarding /\ ~draining
  /\ \/ /\ doneCh > 0
        /\ closeStreamChannels
        /\ discarding' = FALSE
        /\ UNCHANGED <<reader, draining, delivered, sinkLen>>
     \/ /\ reader["stdout"] = "send"
        /\ broadcastLine("stdout", lineCount["stdout"])
        /\ reader' = [reader EXCEPT !["stdout"] = "scan"]
        /\ UNCHANGED <<closedSinks, discarding, draining>>
     \/ /\ reader["stdout"] = "done"
        /\ draining' = TRUE
        /\ UNCHANGED <<streamChans, closedSinks, discarding, reader,
                       delivered, sinkLen>>
     \/ /\ reader["stderr"] = "send"
        /\ broadcastLine("stderr", lineCount["stderr"])
        /\ reader' = [reader EXCEPT !["stderr"] = "scan"]
        /\ UNCHANGED <<closedSinks, discarding, draining>>
  /\ UNCHANGED <<execVars, osVars, timeoutCtx, cancelCalled, cmdWaitOnce,
                 cmdWaitResult, waitCh, stopOnce, doneCh, regCount,
                 stopCtxDone, callerCtxDone, done, obsVars, threadVars, written, lineCount,
                 regAt>>

\* A drainStderr that hands the stderr lines it receives to the listeners.
drainStderr_Broadcasts ==
  /\ discarding /\ draining
  /\ \/ /\ doneCh > 0
        /\ closeStreamChannels
        /\ discarding' = FALSE /\ draining' = FALSE
        /\ UNCHANGED <<reader, delivered, sinkLen>>
     \/ /\ reader["stderr"] = "done"
        /\ closeStreamChannels
        /\ discarding' = FALSE /\ draining' = FALSE
        /\ UNCHANGED <<reader, delivered, sinkLen>>
     \/ /\ reader["stderr"] = "send"
        /\ broadcastLine("stderr", lineCount["stderr"])
        /\ reader' = [reader EXCEPT !["stderr"] = "scan"]
        /\ UNCHANGED <<closedSinks, discarding, draining>>
  /\ UNCHANGED <<execVars, osVars, timeoutCtx, cancelCalled, cmdWaitOnce,
                 cmdWaitResult, waitCh, stopOnce, doneCh, regCount,
                 stopCtxDone, callerCtxDone, done, obsVars, threadVars, written, lineCount,
                 regAt>>

\* drainStderr, one pass of its select: doneCh is closed or internalStderr
\* is closed (return, and discardInternalOutput returns with it), or a line
\* of stderr is received and dropped.
drainStderr ==
  /\ discarding /\ draining
  /\ \/ /\ doneCh > 0
        /\ closeStreamChannels
        /\ discarding' = FALSE /\ draining' = FALSE
        /\ UNCHANGED reader
     \/ /\ reader["stderr"] = "done"
        /\ closeStreamChannels
        /\ discarding' = FALSE /\ draining' = FALSE
        /\ UNCHANGED reader
     \/ /\ reader["stderr"] = "send"
        /\ reader' = [reader EXCEPT !["stderr"] = "scan"]
        /\ UNCHANGED <<streamChans, closedSinks, discarding, draining>>
  /\ UNCHANGED <<execVars, osVars, timeoutCtx, cancelCalled, cmdWaitOnce,
                 cmdWaitResult, waitCh, stopOnce, doneCh, regCount,
                 stopCtxDone, callerCtxDone, done, obsVars, threadVars, written, lineCount,
                 delivered, sinkLen, regAt>>

\* The listener takes a line out of one of its sinks.
sinkReceive(r, s) ==
  /\ sinkLen[r][s] > 0
  /\ sinkLen' = [sinkLen EXCEPT ![r][s] = @ - 1]
  /\ UNCHANGED <<execVars, osVars, handleVars, obsVars, threadVars, written,
                 lineCount, reader, draining, delivered, regAt>>

\* ------------------------------------------------------------------- Next
Next ==
  \/ \E t \in ExecThreads : ExecAcquire(t)
  \/ \E t \in ExecThreads : ExecLookupParse(t)
  \/ \E t \in ExecThreads : CommanderStart(t)
  \/ \E t \in ExecThreads : Wait(t)
  \/ \E t \in ExecThreads : ExecReturn(t)
  \/ \E t \in StopThreads : ExecutorStop(t)
  \/ StreamOutputs
  \/ ProcExit
  \/ ProcTerminated
  \/ ReapedElsewhere
  \/ DeadlineExceeded
  \/ \E t \in Callers \cup {Waiter} : cmdWaitOnceDo(t)
  \/ \E t \in Callers \cup {Waiter} : cmdWaitBody(t)
  \/ \E t \in Callers : stopOnceDo(t)
  \/ StopCtxDone
  \/ \E t \in Callers : killProcessSelect(t)
  \/ \E stream \in {"stdout", "stderr"} :
       \E blocked \in SUBSET (1..MaxCalls) : broadcast(stream, blocked)
  \/ discardInternalOutput
  \/ \E t \in Callers : cleanup(t)

Spec == Init /\ [][Next]_vars

\* Steps of the program's own tasks and of its timers: the scheduler runs a
\* task that can take a step, cmd.Wait returns once the process has ended,
\* and a grace period that was started runs out.
Progress ==
  \/ \E t \in ExecThreads : ExecLookupParse(t)
  \/ \E t \in ExecThreads : CommanderStart(t)
  \/ \E t \in ExecThreads : Wait(t)
  \/ \E t \in ExecThreads : ExecReturn(t)
  \/ \E t \in Callers \cup {Waiter} : cmdWaitOnceDo(t)
  \/ \E t \in Callers \cup {Waiter} : cmdWaitBody(t)
  \/ \E t \in Callers : stopOnceDo(t)
  \/ StopCtxDone
  \/ \E t \in Callers : killProcessSelect(t)
  \/ discardInternalOutput
  \/ \E t \in Callers : cleanup(t)

FairSpec == Spec /\ WF_vars(Progress)

\* One job followed line by line, from the first call of Exec to the return
\* of Wait and the end of the handle's tasks: the process and its output,
\* the two readers, discardInternalOutput, the calls of StreamOutputs made
\* meanwhile and the listeners.  The job has no deadline and runs to its own
\* end (the shutdown is the one Wait defers); a listener registers both of
\* its sinks.
FirstExec == <<"E", 1>>

BothSinks(chans) == chans.stdout /\ chans.stderr

\* Steps of the program's own tasks: the scheduler runs a task that can take
\* a step.
StreamProgress ==
  \/ ExecLookupParse(FirstExec)
  \/ CommanderStart(FirstExec) /\ timeoutCtx' = "none"
  \/ Wait(FirstExec)
  \/ cmdWaitOnceDo(FirstExec)
  \/ cmdWaitBody(FirstExec)
  \/ stopOnceDo(FirstExec)
  \/ cleanup(FirstExec)
  \/ readStdout
  \/ readStderr
  \/ discardSelect
  \/ drainStderr

StreamNext ==
  \/ ExecAcquire(FirstExec)
  \/ /\ StreamOutputs
     /\ \A i \in DOMAIN streamChans' :
          i > Len(streamChans) => BothSinks(streamChans'[i])
  \/ ProcExit
  \/ \E s \in Streams : procWrite(s)
  \/ \E r \in Jobs, s \in Streams : sinkReceive(r, s)
  \/ StreamProgress

StreamSpec == Init /\ [][StreamNext]_vars

FairStreamSpec == StreamSpec /\ WF_vars(StreamProgress)

\* The first job writing a burst on stdout to listeners that read or do not
\* read their stdout sinks.
SinkNext ==
  \/ ExecAcquire(FirstExec)
  \/ /\ StreamOutputs
     /\ \A i \in DOMAIN streamChans' :
          i > Len(streamChans) => BothSinks(streamChans'[i])
  \/ ProcExit
  \/ procWriteBurst("stdout")
  \/ \E r \in Jobs : sinkReceive(r, "stdout")
  \/ StreamProgress

SinkSpec == Init /\ [][SinkNext]_vars

\* The first job with its output, and one call of RPITX.Stop on it (any grace
\* period): SIGTERM, the grace timer, the select and SIGKILL included.
FirstStop == <<"S", 1>>

StopStreamNext ==
  \/ StreamNext
  \/ ExecutorStop(FirstStop)
  \/ stopOnceDo(FirstStop)
  \/ \E t \in {FirstStop, Waiter} : cmdWaitOnceDo(t)
  \/ \E t \in {FirstStop, Waiter} : cmdWaitBody(t)
  \/ ProcTerminated
  \/ StopCtxDone
  \/ killProcessSelect(FirstStop)
  \/ cleanup(FirstStop)

StopStreamSpec == Init /\ [][StopStreamNext]_vars

\* The executor with calls of Exec that are also made under a ctx with a
\* deadline of the caller's.
DeadlineNext ==
  \/ Next
  \/ \E t \in ExecThreads : CommanderStartCtx(t)

DeadlineSpec == Init /\ [][DeadlineNext]_vars

\* Successive jobs of the audiosock-broadcast module: each Exec looks the
\* same instance up and calls its ParseArgs with the payload of the job.
ParseNext == \E args \in Payloads : ParseArgs(args)

ParseSpec == Init /\ [][ParseNext]_vars

\* ---------------------------------------------------------- type / sanity
TypeOK ==
  /\ isExecuting \in BOOLEAN /\ process \in 0..MaxCalls
  /\ jobs \in 0..MaxCalls /\ calls \in 0..MaxCalls
  /\ modules.SocketPath \in SocketPaths
  /\ modules.Frequency \in {<<0, 0>>} \cup Frequencies
  /\ modules.SampleRate \in Opt(SampleRates)
  /\ modules.CSDRPreset \in Opt(Presets)
  /\ modules.Gain \in Opt(Gains)
  /\ parsed.payload \in Opt(Payloads)
  /\ parsed.ret.stdin = "nil"
  /\ procState \in {"none", "running", "zombie", "reaped", "stolen"}
  /\ exitStatus \in {"none", "exit0", "exit1", "sigterm", "sigkill"}
  /\ timeoutCtx \in {"none", "armed", "expired", "inherited"}
  /\ cmdWaitOnce \in {"idle", "running", "done"}
  /\ \A j \in Jobs : stopOnce[j] \in {"idle", "running", "done"}
  /\ regCount \in 0..MaxCalls
  /\ stopCtxDone \in BOOLEAN /\ callerCtxDone \in BOOLEAN
  /\ callerCtxDone => stopCtxDone

\* A caller holding the handle of a finished job always finds its stopOnce
\* done: the body never has to run on a handle other than the current one.
StaleHandleDone ==
  \A t \in Callers :
    (pc[t] = "st_once" /\ href[t] # jobs) => stopOnce[href[t]] = "done"

\* ================================================================= claims
\* A call of Exec holds the Execution Slot from its successful test-and-set
\* until it returns.
HoldsSlot(t) == t \in ExecThreads /\ pc[t] \notin {"idle", "e_busy", "done"}

\* A call of RPITX.Stop that has returned on the handle of the running job.
ReturnedOnHandle(t) ==
  t \in StopThreads /\ pc[t] = "st_ret" /\ process # 0 /\ href[t] = process

\* C1: in every interleaving at most one call of Exec holds the Execution
\* Slot; a call of Exec made while the slot is held returns ErrExecuting in
\* that very step (it never waits), acquires nothing and starts no process.
C1_SingleFlight ==
  /\ [](Cardinality({ t \in ExecThreads : HoldsSlot(t) }) <= 1)
  /\ [](\A t \in ExecThreads : pc[t] = "e_busy" => waitErr[t] = ErrExecuting)
  /\ [][\A t \in ExecThreads :
          (pc[t] = "idle" /\ pc'[t] # "idle" /\ isExecuting)
            => /\ pc'[t] = "e_busy"
               /\ waitErr'[t] = ErrExecuting
               /\ UNCHANGED <<jobs, process, procState>>]_vars

\* C1 witness: one call runs its process while another has been rejected.
C1_Witness ==
  \E t, u \in ExecThreads :
    /\ pc[t] = "w_cmdwait" /\ procState = "running"
    /\ pc[u] = "e_busy" /\ waitErr[u] = ErrExecuting
    /\ jobs = 1

\* C2: whenever a call of Exec that acquired the slot returns, on whatever
\* path, the slot is idle and the handle reference is cleared; the slot is
\* set only while some call holds it, so a call of Exec is rejected as busy
\* only while another call is still in progress.
C2_SlotIdleAfterExec ==
  /\ [](isExecuting <=> \E t \in ExecThreads : HoldsSlot(t))
  /\ [][\A t \in ExecThreads :
          (HoldsSlot(t) /\ pc'[t] = "done") => (~isExecuting' /\ process' = 0)]_vars
  /\ [][\A t \in ExecThreads :
          (pc[t] = "idle" /\ pc'[t] = "e_busy")
            => \E u \in ExecThreads \ {t} : HoldsSlot(u)]_vars

\* C2 witness: a job has finished and a later call of Exec runs its process.
C2_Witness ==
  \E t, u \in ExecThreads :
    /\ pc[t] = "done"
    /\ pc[u] = "w_cmdwait" /\ procState = "running"
    /\ isExecuting /\ jobs = 2

\* C3: on one handle the body of stopOnce runs at most once, however many
\* calls of Stop/Kill and Wait's deferred call there are, and exactly once
\* when any of them has returned; the handle sends SIGTERM at most once and
\* SIGKILL at most once.
C3_ShutdownOnce ==
  /\ bodyRuns <= 1 /\ termSent <= 1 /\ killSent <= 1 /\ killCalls <= 1
  /\ waitReturned => bodyRuns = 1
  /\ \A t \in StopThreads : ReturnedOnHandle(t) => bodyRuns = 1

\* C3 witness: two calls of Stop and Wait's deferred call have all returned
\* on one handle, after one SIGTERM and one SIGKILL.
C3_Witness ==
  /\ waitReturned /\ bodyRuns = 1 /\ termSent = 1 /\ killSent = 1
  /\ \E t, u \in StopThreads :
       t # u /\ ReturnedOnHandle(t) /\ ReturnedOnHandle(u)

\* C4 (as stated; refuted): every call of Stop on a handle returns what the
\* performing call returns.
C4_SameOutcome ==
  \A t, u \in StopThreads :
    (t = performer /\ ReturnedOnHandle(t) /\ ReturnedOnHandle(u))
      => stopErr[u] = stopErr[t]

\* C5: cmd.Wait is invoked at most once per handle; at most one caller is
\* inside it; whoever has obtained a result from cmdWait (Wait, forceKill,
\* the goroutine of killProcess through done) obtained it after that single
\* invocation completed, and it is the stored result.
C5_CmdWaitOnce ==
  /\ cmdWaitCalls <= 1
  /\ Cardinality({ t \in Threads : cw[t] = "run" }) <= 1
  /\ cmdWaitOnce = "running" <=> \E t \in Threads : cw[t] = "run"
  /\ \A t \in ExecThreads :
       pc[t] = "w_classify"
         => (cmdWaitOnce = "done" /\ waitCh /\ err[t] = cmdWaitResult)
  /\ done # "empty" => (cmdWaitOnce = "done" /\ done = cmdWaitResult)
  /\ \A t \in Callers :
       (pc[t] = "cleanup" /\ killSent = 1)
         => /\ cmdWaitOnce = "done"
            /\ stopErr[t] = ForceKillWaitResult(cmdWaitResult)

\* C5 witness: Wait, forceKill and the goroutine of killProcess all asked
\* for the result of one handle; cmd.Wait ran once.
C5_Witness ==
  /\ cmdWaitCalls = 1 /\ cmdWaitOnce = "done"
  /\ termSent = 1 /\ selected = "ctx" /\ killSent = 1
  /\ pc[Waiter] = "idle"
  /\ \E e \in ExecThreads, s \in StopThreads :
       pc[e] = "w_classify" /\ pc[s] = "cleanup"

\* C6: a call of RPITX.Stop made while the slot is idle returns
\* ErrNotExecuting in that very step and changes nothing else; a call of
\* StreamOutputs made while the slot is idle registers nothing and closes
\* nothing.
C6_IdleStopStream ==
  /\ [][\A t \in StopThreads :
          (pc[t] = "idle" /\ pc'[t] # "idle" /\ ~isExecuting)
            => /\ pc'[t] = "st_ret"
               /\ stopErr'[t] = ErrNotExecuting
               /\ UNCHANGED <<isExecuting, process, jobs, osVars, handleVars,
                              obsVars>>]_vars
  /\ [][(calls' = calls + 1 /\ pc' = pc /\ ~isExecuting)
          => UNCHANGED <<isExecuting, process, jobs, osVars, handleVars,
                         obsVars>>]_vars

\* C6 witness: Stop and StreamOutputs have both been called on an executor
\* that never ran a job.
C6_Witness ==
  /\ jobs = 0 /\ calls = 2 /\ ~isExecuting
  /\ pc[<<"S", 1>>] = "st_ret" /\ stopErr[<<"S", 1>>] = ErrNotExecuting
  /\ \A t \in Callers \ {<<"S", 1>>} : pc[t] = "idle"
  /\ streamChans = <<>> /\ regCount = 0 /\ closedSinks = {}

\* C7: the step in which a call of Exec is rejected as busy changes nothing
\* of the running job: slot, handle reference, process, signals sent,
\* registered listeners, deadline, and the position of every other thread.
C7_BusyExecNoEffect ==
  [][\A t \in ExecThreads :
       (pc[t] = "idle" /\ pc'[t] = "e_busy")
         => /\ UNCHANGED <<isExecuting, process, jobs, osVars, handleVars,
                           obsVars, cw, href, err, stopErr, late>>
            /\ \A u \in Threads \ {t} :
                 pc'[u] = pc[u] /\ waitErr'[u] = waitErr[u]]_vars

\* C7 witness: a call was rejected while the first job runs with a deadline
\* and a listener, unsignalled.
C7_Witness ==
  \E t, u \in ExecThreads :
    /\ pc[u] = "e_busy"
    /\ pc[t] = "w_cmdwait" /\ isExecuting /\ process = href[t]
    /\ procState = "running" /\ timeoutCtx = "armed"
    /\ ActiveSinks(streamChans) # {}
    /\ termSent = 0 /\ killSent = 0

C9_CleanExitIsTerminated ==
  \A t \in Callers :
    (/\ pc[t] = "cleanup" /\ perfGrace > 0 /\ termAlive
     /\ selected = "done" /\ cmdWaitResult \in {"nil", "SignalTERM"})
      => (stopErr[t] = ErrTerminated /\ killSent = 0)

\* C9 (amended): when the performing call of Stop with a positive timeout
\* receives the exit of the process before the grace period runs out, no
\* SIGKILL is sent; the call gets ErrTerminated when the process was
\* terminated by the SIGTERM, and nil (success) when it exited with
\* status 0.
C9_GracefulTermination ==
  \A t \in Callers :
    (pc[t] = "cleanup" /\ perfGrace > 0 /\ selected = "done")
      => /\ killSent = 0 /\ killCalls = 0
         /\ cmdWaitResult = "SignalTERM" => stopErr[t] = ErrTerminated
         /\ cmdWaitResult = "nil" => stopErr[t] = "nil"

\* C9 witness: a running process took the SIGTERM of a call of RPITX.Stop
\* with a positive timeout and died of it within the grace period.
C9_Witness ==
  \E t \in StopThreads :
    /\ pc[t] = "cleanup" /\ t = performer /\ perfGrace > 0
    /\ termAlive /\ selected = "done" /\ ~stopCtxDone
    /\ cmdWaitResult = "SignalTERM"
    /\ stopErr[t] = ErrTerminated /\ killSent = 0

\* C10: once Wait has returned, the body of stopOnce has run to its end
\* (doneCh closed once, cancelTimeout called and no deadline pending, every
\* sink that was active when closeStreamChannels ran is closed); from then
\* on the handle sends no signal and runs no body, and a call of Stop made
\* after Wait returned passes stopOnce without changing anything.
C10_WaitCleanup ==
  /\ [](waitReturned
          => /\ bodyRuns = 1 /\ stopOnce[jobs] = "done"
             /\ doneCh = 1 /\ cancelCalled /\ timeoutCtx # "armed"
             /\ closedAt >= 0
             /\ \A s \in ActiveSinks(streamChans) : s[1] > closedAt)
  /\ [][doneCh' = doneCh + 1
          => (ActiveSinks(streamChans) \subseteq closedSinks'
              /\ streamChans' = <<>>)]_vars
  /\ [][(waitReturned /\ waitReturned')
          => UNCHANGED <<osVars, termSent, killSent, killCalls, bodyRuns,
                         doneCh, stopOnce>>]_vars
  /\ [][\A t \in StopThreads :
          (late[t] /\ pc[t] = "st_once" /\ pc'[t] # "st_once")
            => /\ UNCHANGED <<isExecuting, process, jobs, osVars, handleVars,
                              obsVars>>
               /\ stopErr'[t] = "nil"]_vars

\* C10 witness: Wait has returned after a listener was closed by the
\* shutdown, and a call of RPITX.Stop made after that has returned nil.
C10_Witness ==
  /\ waitReturned /\ closedSinks # {} /\ cancelCalled /\ doneCh = 1
  /\ \E t \in StopThreads :
       late[t] /\ ReturnedOnHandle(t) /\ stopErr[t] = "nil"

\* The background tasks of the handle have all returned.
TasksDone == ~discarding /\ \A s \in Streams : reader[s] = "done"

\* C11: under fair scheduling, once Wait has returned the stdout reader, the
\* stderr reader and discardInternalOutput all return; and once doneCh is
\* closed none of them stays blocked on an internal channel.
C11_TasksTerminate ==
  /\ waitReturned ~> TasksDone
  /\ doneCh > 0 ~> TasksDone

\* C11 witness: Wait has returned while a reader still holds a line and
\* discardInternalOutput is still running.
C11_Witness ==
  /\ waitReturned /\ discarding
  /\ \E s \in Streams : reader[s] = "send"

\* C12: Wait maps the result of cmdWait to one outcome: nil for a clean
\* exit; otherwise ErrTimeout when the deadline has passed, whatever ended
\* the process (SIGTERM and SIGKILL included); otherwise ErrTerminated for a
\* death by SIGTERM, ErrKilled for a death by SIGKILL, and a wrapped error
\* for anything else.
C12_WaitOutcome ==
  [][\A t \in ExecThreads :
       (pc[t] = "w_classify" /\ pc'[t] # "w_classify")
         => /\ err[t] = cmdWaitResult
            /\ waitErr'[t] =
                 IF err[t] = "nil" THEN "nil"
                 ELSE IF timeoutCtx = "expired" THEN ErrTimeout
                 ELSE IF err[t] = "SignalTERM" THEN ErrTerminated
                 ELSE IF err[t] = "SignalKILL" THEN ErrKilled
                 ELSE ErrWrapped]_vars

\* C12 witness: the process died of SIGTERM, the deadline passed before Wait
\* mapped the exit, and Wait is returning ErrTimeout.
C12_Witness ==
  \E t \in ExecThreads :
    /\ pc[t] = "st_once" /\ err[t] = "SignalTERM"
    /\ timeoutCtx = "expired" /\ waitErr[t] = ErrTimeout

\* C13: when the deadline of a job passes while its process runs, the
\* process is killed on the spot; Exec then returns, with ErrTimeout or
\* ErrKilled, and the Execution Slot goes idle.
C13_DeadlineKills ==
  /\ [](timeoutCtx = "expired" => procState # "running")
  /\ [][(timeoutCtx = "armed" /\ timeoutCtx' = "expired"
           /\ procState = "running")
          => (procState' = "zombie" /\ exitStatus' = "sigkill")]_vars
  /\ [][(procState = "zombie" /\ exitStatus = "sigkill"
           /\ procState' = "reaped")
          => cmdWaitResult' = "SignalKILL"]_vars
  /\ [](\A t \in ExecThreads :
          (/\ pc[t] = "e_ret" /\ timeoutCtx = "expired"
           /\ cmdWaitResult = "SignalKILL")
            => waitErr[t] \in {ErrTimeout, ErrKilled})
  /\ [][\A t \in ExecThreads :
          (pc[t] = "e_ret" /\ pc'[t] = "done") => ~isExecuting']_vars
  /\ (timeoutCtx = "expired" /\ isExecuting) ~> ~isExecuting

\* C13 witness: the deadline killed the running process (no signal came from
\* Stop) and Exec is returning ErrTimeout.
C13_Witness ==
  \E t \in ExecThreads :
    /\ pc[t] = "e_ret" /\ timeoutCtx = "expired"
    /\ cmdWaitResult = "SignalKILL" /\ killSent = 0 /\ termSent = 0
    /\ waitErr[t] = ErrTimeout

\* Lines that were sent into the sink of stream s of registration r.
Received(r, s) == { delivered[r][s][i] : i \in DOMAIN delivered[r][s] }

\* Lines of stream s the process wrote after registration r was made.
WrittenSince(r, s) == (regAt[r][s] + 1)..written[s]

\* C14 (as stated; refuted): a sink that stayed active until the handle
\* closed it has been sent every line of its stream that the process wrote
\* after the registration, on stdout and on stderr alike.
C14_AllLinesAfterRegistration ==
  \A r \in 1..regCount : \A s \in Streams :
    <<r, s>> \in closedSinks => WrittenSince(r, s) \subseteq Received(r, s)

\* C18 (as stated; refuted): the handle closes a sink only when both readers
\* have returned (both internal channels are exhausted) and no line of the
\* sink's stream written after its registration is left undelivered.
C18_ClosedWhenDrained ==
  [][\A r \in 1..regCount : \A s \in Streams :
       (<<r, s>> \in closedSinks' /\ <<r, s>> \notin closedSinks)
         => /\ \A u \in Streams : reader[u] = "done"
            /\ WrittenSince(r, s) \subseteq Received(r, s)]_vars

\* C15: the broadcast of a line never waits for a sink.  In the one step
\* that takes the line from the reader, every active sink of the stream with
\* room is sent the line and stays active, every active sink that is full is
\* marked inactive and sent nothing, the sinks of the other stream are left
\* as they are, and the reader is free to scan again; a line waiting in a
\* reader can always be taken, whatever the fill of the sinks.
C15_NonBlockingDelivery ==
  /\ [][\A s \in Streams :
          (discarding /\ ~draining /\ reader[s] = "send" /\ reader'[s] = "scan")
            => /\ DOMAIN streamChans' = DOMAIN streamChans
               /\ \A i \in DOMAIN streamChans :
                    LET r == streamChans[i].reg
                    IN  /\ streamChans'[i].reg = r
                        /\ \A u \in Streams \ {s} :
                             /\ streamChans'[i][u] = streamChans[i][u]
                             /\ delivered'[r][u] = delivered[r][u]
                        /\ IF streamChans[i][s] /\ sinkLen[r][s] < SinkCap
                           THEN /\ streamChans'[i][s]
                                /\ delivered'[r][s] =
                                     Append(delivered[r][s], lineCount[s])
                           ELSE /\ ~streamChans'[i][s]
                                /\ delivered'[r][s] = delivered[r][s]]_vars
  /\ [](\A s \in Streams :
          (discarding /\ ~draining /\ reader[s] = "send")
            => ENABLED (discardSelect /\ reader'[s] = "scan"))

\* C15 witness: the listener of registration 1 did not read, its stdout sink
\* was full at line 2 and was marked inactive, and registration 2 was sent
\* lines 1 and 2.
C15_Witness ==
  /\ \E i \in DOMAIN streamChans :
       streamChans[i].reg = 1 /\ ~streamChans[i].stdout
  /\ delivered[1]["stdout"] = <<1>>
  /\ delivered[2]["stdout"] = <<1, 2>>

\* C16: with or without listeners, a reader that holds a line for its
\* internal channel does not wait forever: while the process is running the
\* broadcaster is there and can receive the line at once, and in every run
\* the reader eventually leaves the send.
C16_ReadersNotBlocked ==
  /\ [](\A s \in Streams :
          (procState = "running" /\ reader[s] = "send")
            => /\ discarding
               /\ ENABLED ((discardSelect \/ drainStderr) /\ reader'[s] = "scan"))
  /\ \A s \in Streams : (reader[s] = "send") ~> (reader[s] # "send")

\* C16 witness: nobody ever registered, the process is still running, and
\* both of its lines were taken from the readers.
C16_Witness ==
  /\ regCount = 0 /\ streamChans = <<>>
  /\ procState = "running"
  /\ lineCount["stdout"] + lineCount["stderr"] = MaxLines
  /\ \A s \in Streams : reader[s] = "scan"

\* C17: on every sink the lines of a stream arrive in the order in which the
\* process wrote them and none arrives twice: what a sink was sent is a
\* strictly increasing sequence of line numbers the process has written.
\* Nothing relates the stdout sequence to the stderr sequence.
C17_OrderedNoDuplicates ==
  \A r \in Jobs : \A s \in Streams :
    /\ \A i \in DOMAIN delivered[r][s] : delivered[r][s][i] \in 1..written[s]
    /\ \A i, k \in DOMAIN delivered[r][s] :
         i < k => delivered[r][s][i] < delivered[r][s][k]

\* C17 witness: a sink was sent two lines of stderr, and another listener
\* that registered later only the second.
C17_Witness ==
  /\ delivered[1]["stderr"] = <<1, 2>>
  /\ delivered[2]["stderr"] = <<2>>

\* No reader and no broadcaster exists for the handle.
NoTasks == ~discarding /\ \A s \in Streams : reader[s] = "none"

\* C19: when Start fails (pipe creation or spawn), the call goes straight
\* from the start to its return with the start error: no process exists, no
\* reader or broadcaster was started, the timeout context was cancelled and
\* is not armed, and the executor holds no handle; this stays so until Exec
\* has returned.
C19_StartFailure ==
  /\ [][\A t \in ExecThreads :
          (pc[t] = "e_start" /\ pc'[t] # "w_cmdwait" /\ pc'[t] # "e_start")
            => /\ pc'[t] = "e_ret"
               /\ waitErr'[t] = ErrStart
               /\ procState' = "none" /\ NoTasks'
               /\ cancelCalled' /\ timeoutCtx' # "armed"
               /\ process' = 0 /\ href'[t] = 0]_vars
  /\ [](\A t \in ExecThreads :
          (pc[t] = "e_ret" /\ waitErr[t] = ErrStart)
            => /\ procState = "none" /\ NoTasks
               /\ cancelCalled /\ timeoutCtx # "armed"
               /\ process = 0 /\ href[t] = 0
               /\ streamChans = <<>>)

\* C19 witness: a second job failed to start after a first one ran, and its
\* Exec is about to return the start error.
C19_Witness ==
  /\ jobs = 2
  /\ \E t \in ExecThreads :
       pc[t] = "e_ret" /\ waitErr[t] = ErrStart /\ cancelCalled /\ NoTasks

\* The four outcomes the concurrent-Stop test accepts.
ClassifiedStop == {"nil", ErrNotExecuting, ErrTerminated, ErrKilled}

\* A wait failure of the process itself, as cmd.Wait reports it (raw) or as
\* forceKill wraps it.
WaitFailure == {"ExitError", "CtxErr", ErrWrapped}

C21_StopReturnsAfterShutdown ==
  /\ [](\A t \in StopThreads :
          (pc[t] = "st_ret" /\ href[t] # 0)
            => /\ stopOnce[href[t]] = "done"
               /\ doneCh > 0
               /\ closedAt >= 0
               /\ \A i \in DOMAIN streamChans : streamChans[i].reg > closedAt)
  /\ [][\A t \in StopThreads :
          (pc[t] = "st_once" /\ pc'[t] \in {"st_ret", "done"})
            => stopOnce[href[t]] = "done"]_vars

\* C21 witness: a Stop call made while the job was still being waited for,
\* which did not run the body, has returned next to the one that did.
C21_Witness ==
  \E t, u \in StopThreads :
    /\ t # u /\ u = performer
    /\ pc[t] = "st_ret" /\ pc[u] = "st_ret"
    /\ href[t] # 0 /\ href[u] = href[t] /\ ~late[t]
    /\ doneCh > 0

\* The errors with which Exec gives up a job before any process runs.
ExecFailures == {ErrUnknownModule, ErrParseArgs, ErrStart}

\* C22: an Exec that fails at the module lookup or at ParseArgs returns the
\* unknown-module or the parse-args error straight from there, without
\* touching the process handle or the OS (no process is started); one whose
\* process cannot be started returns the start error; while such a call is
\* about to return no process exists and no task runs, and the step on
\* which it returns leaves the Execution Slot idle.
C22_ExecFailures ==
  /\ [][\A t \in ExecThreads :
          (pc[t] = "e_lookup" /\ pc'[t] # "e_lookup" /\ pc'[t] # "e_start")
            => /\ pc'[t] = "e_ret"
               /\ waitErr'[t] \in {ErrUnknownModule, ErrParseArgs}
               /\ UNCHANGED <<process, osVars, handleVars, lineVars>>]_vars
  /\ [](\A t \in ExecThreads :
          (pc[t] = "e_ret" /\ waitErr[t] \in ExecFailures)
            => /\ procState = "none" /\ process = 0
               /\ ~discarding /\ \A s \in Streams : reader[s] = "none"
               /\ cmdWaitCalls = 0 /\ termSent = 0 /\ killSent = 0
               /\ isExecuting)
  /\ [][\A t \in ExecThreads :
          (pc[t] = "e_ret" /\ waitErr[t] \in ExecFailures /\ pc'[t] # "e_ret")
            => /\ pc'[t] = "done"
               /\ ~isExecuting' /\ process' = 0]_vars

\* C22 witness: after a job that ran, an Exec was rejected by ParseArgs, has
\* returned, and a third Exec with an unknown module is about to return.
C22_Witness ==
  /\ jobs = 3
  /\ pc[<<"E", 2>>] = "done"
  /\ pc[<<"E", 3>>] = "e_ret" /\ waitErr[<<"E", 3>>] = ErrUnknownModule
  /\ isExecuting /\ procState = "none"

\* A graceful Stop is under way on the handle: the body runs with a positive
\* grace period and its SIGTERM was delivered.
GracefulStop == perfGrace > 0 /\ termSent > 0

\* C23 (as stated; refuted): in a graceful Stop, once the process has exited
\* while the grace period had not elapsed, no SIGKILL is ever sent on that
\* handle.
C23_NoKillAfterExitInGrace ==
  \A j \in Jobs :
    []((/\ jobs = j /\ GracefulStop /\ killSent = 0
        /\ \E t \in Callers : pc[t] = "kp_select"
        /\ ~stopCtxDone /\ procState # "running")
         => [](jobs = j => killSent = 0))

\* C23 (amended): in a graceful Stop, SIGKILL is sent only by the timeout
\* branch of the select, after stopCtx is done, and after the SIGTERM of
\* that call, never before it; when the select receives the exit of the
\* process instead, the call goes to the cleanup with no SIGKILL sent and
\* no kill attempted.
C23_KillAfterGrace ==
  /\ [][(killSent' = killSent + 1 /\ GracefulStop)
          => /\ stopCtxDone /\ selected' = "ctx"
             /\ termSent = 1 /\ killSent = 0
             /\ \E t \in Callers : pc[t] = "kp_select" /\ pc'[t] = "fk_cmdwait"]_vars
  /\ [][termSent' = termSent + 1 => (killSent = 0 /\ killCalls = 0)]_vars
  /\ [][\A t \in Callers :
          (pc[t] = "kp_select" /\ pc'[t] = "cleanup")
            => /\ selected' = "done" \/ ProcessSignal(procState) = ErrProcessDone
               /\ killSent' = 0]_vars

\* C23 witness: the grace period ran out on a process that ignored the
\* SIGTERM, and the SIGKILL of the escalation hit it while it was running.
C23_Witness ==
  \E t \in Callers :
    /\ pc[t] = "fk_cmdwait" /\ t = performer /\ GracefulStop
    /\ stopCtxDone /\ selected = "ctx"
    /\ killSent = 1 /\ killedAlive

\* C24: when the body of Stop runs with a positive grace period on a
\* process to which SIGTERM cannot be delivered, no SIGTERM counts as sent,
\* no stopCtx and no waiting goroutine are set up, and forceKill is called
\* in the same step; the call reaches the cleanup without having been in the
\* select, holding the outcome of forceKill (nil: the kill request finds the
\* process finished as well).
C24_UndeliverableTermFallsBack ==
  /\ [][(/\ bodyRuns' = bodyRuns + 1 /\ perfGrace' > 0
          /\ procState # "none" /\ ProcessSignal(procState) # "nil")
          => /\ termSent' = termSent
             /\ killCalls' = killCalls + 1
             /\ stopCtxDone' = stopCtxDone
             /\ pc'[Waiter] = pc[Waiter]
             /\ pc'[performer'] \in {"cleanup", "fk_cmdwait"}
             /\ pc'[performer'] = "cleanup"
                  => stopErr'[performer'] = "nil"]_vars
  /\ [](\A t \in Callers :
          (pc[t] = "cleanup" /\ perfGrace > 0 /\ termSent = 0 /\ killCalls > 0)
            => /\ selected = "none" /\ ~stopCtxDone
               /\ killSent = 0 /\ killCalls = 1
               /\ stopErr[t] = "nil")

\* C24 witness: a Stop with a positive grace period ran the body on a
\* process that Wait had already reaped; it is at the cleanup with nil.
C24_Witness ==
  \E t \in StopThreads :
    /\ pc[t] = "cleanup" /\ t = performer /\ perfGrace > 0
    /\ procState \in {"reaped", "stolen"}
    /\ termSent = 0 /\ killCalls = 1 /\ killSent = 0
    /\ stopErr[t] = "nil"

C26_CleanupAlways ==
  /\ [][\A j \in Jobs :
          (stopOnce[j] = "running" /\ stopOnce'[j] # "running")
            => /\ stopOnce'[j] = "done"
               /\ cancelCalled' /\ timeoutCtx' # "armed"
               /\ doneCh' = doneCh + 1
               /\ ActiveSinks(streamChans) \subseteq closedSinks'
               /\ streamChans' = <<>>]_vars
  /\ \A j \in Jobs : (stopOnce[j] = "running") ~> (stopOnce[j] = "done")

\* C26 witness: the kill step failed (the wrapped failure after SIGKILL),
\* and the call has returned it with the timeout cancelled, the done signal
\* raised and a listener's sinks closed.
C26_Witness ==
  \E t \in StopThreads :
    /\ pc[t] = "st_ret" /\ t = performer /\ stopErr[t] = ErrWrapped
    /\ cancelCalled /\ timeoutCtx # "armed" /\ doneCh = 1
    /\ closedSinks # {} /\ streamChans = <<>>

\* The process of the handle has exited (it may or may not have been waited
\* for).
Exited == procState \in {"zombie", "stolen", "reaped"}

C28_InactiveForGood ==
  [][/\ \A i \in DOMAIN streamChans : \A s \in Streams :
          LET r == streamChans[i].reg
          IN  /\ ~streamChans[i][s]
                   => /\ delivered'[r][s] = delivered[r][s]
                      /\ i \in DOMAIN streamChans'
                           => (streamChans'[i].reg = r /\ ~streamChans'[i][s])
              /\ (streamChans[i][s] /\ i \in DOMAIN streamChans'
                     /\ ~streamChans'[i][s])
                   => \A u \in Streams \ {s} :
                        streamChans'[i][u] = streamChans[i][u]
     /\ \A r \in Jobs : \A s \in Streams :
          delivered'[r][s] # delivered[r][s]
            => \E i \in DOMAIN streamChans :
                 streamChans[i].reg = r /\ streamChans[i][s]]_vars

\* C28 witness: the stdout sink of registration 1 was marked inactive at
\* line 2; its listener has emptied it, line 3 went to registration 2 only,
\* and the sink is still inactive while the stderr sink of the same
\* registration is active.
C28_Witness ==
  \E i \in DOMAIN streamChans :
    /\ streamChans[i].reg = 1
    /\ ~streamChans[i].stdout /\ streamChans[i].stderr
    /\ delivered[1]["stdout"] = <<1>> /\ sinkLen[1]["stdout"] = 0
    /\ delivered[2]["stdout"] = <<1, 2, 3>>

Stopping == stopOnce[1] # "idle"

C31_BusyBeforeLookup ==
  /\ [][\A t \in ExecThreads :
          (pc'[t] = "e_lookup" /\ pc[t] # "e_lookup")
            => /\ pc[t] = "idle"
               /\ ~isExecuting /\ isExecuting'
               /\ jobs' = jobs + 1]_vars
  /\ [][\A t \in ExecThreads :
          (pc[t] = "idle" /\ pc'[t] # "idle" /\ isExecuting)
            => /\ pc'[t] \notin {"e_lookup", "e_start", "e_ret"}
               /\ waitErr'[t] \notin {ErrUnknownModule, ErrParseArgs}]_vars
  /\ [][\A t \in ExecThreads :
          pc[t] = "e_busy" => pc'[t] = "e_busy" /\ waitErr'[t] = waitErr[t]]_vars
  /\ [](\A t \in ExecThreads :
          waitErr[t] \in {ErrUnknownModule, ErrParseArgs} => pc[t] = "e_ret")

\* C31 witness: two calls were rejected as busy while the call that holds
\* the slot has not yet looked its own module up.
C31_Witness ==
  \E t \in ExecThreads :
    /\ pc[t] = "e_lookup" /\ isExecuting /\ jobs = 1
    /\ \A u \in ExecThreads \ {t} :
         pc[u] = "e_busy" /\ waitErr[u] = ErrExecuting

\* C32: on one handle, whatever the order of Stop's cleanup, the end of the
\* broadcaster, the registrations and the broadcasts: a sink the handle has
\* closed is never again an active sink of the registry (so no later
\* closeStreamChannels closes it a second time and no broadcast offers it a
\* line); a closing step closes exactly the sinks that were active and not
\* yet closed, and empties the registry; closed sinks stay closed; and a
\* line is sent only into a sink that is active and not closed.
C32_CloseOnceNoSendAfter ==
  /\ [](ActiveSinks(streamChans) \cap closedSinks = {})
  /\ [][(process # 0 /\ process' # 0)
          => /\ closedSinks \subseteq closedSinks'
             /\ closedSinks' # closedSinks
                  => /\ closedSinks' \ closedSinks = ActiveSinks(streamChans)
                     /\ streamChans' = <<>>
             /\ \A r \in Jobs, s \in Streams :
                  delivered'[r][s] # delivered[r][s]
                    => /\ <<r, s>> \in ActiveSinks(streamChans)
                       /\ <<r, s>> \notin closedSinks
                       /\ <<r, s>> \notin closedSinks']_vars

\* C32 witness: a listener got a line and was closed by Stop's cleanup; a
\* second listener registered after that and was closed by the broadcaster
\* when it ended.
C32_Witness ==
  /\ closedAt = 1 /\ regCount = 2 /\ doneCh = 1 /\ ~discarding
  /\ closedSinks = {1, 2} \X Streams
  /\ streamChans = <<>>
  /\ delivered[1]["stdout"] # <<>> /\ delivered[2]["stdout"] = <<>>

\* Both callers of closeStreamChannels are through on the current handle:
\* the shutdown body has run (stopOnce lets it run once) and the broadcaster
\* has returned.
CleanupsOver ==
  /\ process # 0 /\ stopOnce[process] = "done" /\ doneCh > 0
  /\ ~discarding

\* C33 (as stated; refuted): once nothing is left on the handle that closes
\* sinks, no registered sink is still active and open, so every sink that was
\* never marked inactive has been closed and its listener sees the end of
\* the stream.
C33_EverySinkClosed ==
  CleanupsOver => ActiveSinks(streamChans) \subseteq closedSinks

\* A registered sink the handle holds no more: marked inactive in the
\* registry, or dropped with the registry, and not closed.
GivenUp(r, s) ==
  /\ r \in 1..regCount
  /\ <<r, s>> \notin ActiveSinks(streamChans)
  /\ <<r, s>> \notin closedSinks

\* C34: on one handle a sink that was marked inactive is never closed
\* afterwards, by the broadcaster's last step or by Stop; a closing step
\* closes only sinks that are active in the registry at that step, and
\* leaves an inactive sink of the same registration open.
C34_InactiveNeverClosed ==
  [][(process # 0 /\ process' # 0)
       => /\ \A r \in Jobs, s \in Streams : GivenUp(r, s) => GivenUp(r, s)'
          /\ closedSinks' \ closedSinks \subseteq ActiveSinks(streamChans)
          /\ \A i \in DOMAIN streamChans : \A s \in Streams :
               ~streamChans[i][s]
                 => <<streamChans[i].reg, s>> \notin closedSinks']_vars

\* C34 witness: the stdout sink of registration 1 filled up and was marked
\* inactive at line 2; Stop's cleanup and the end of the broadcaster came
\* after; the stderr sink of the registration is closed, the stdout sink is
\* not.
C34_Witness ==
  /\ regCount = 1 /\ doneCh = 1 /\ ~discarding /\ streamChans = <<>>
  /\ delivered[1]["stdout"] = <<1>> /\ lineCount["stdout"] = 2
  /\ sinkLen[1]["stdout"] = SinkCap
  /\ closedSinks = {<<1, "stderr">>}
  /\ GivenUp(1, "stdout")

\* C35 (as stated; refuted): from the moment the stdout queue is closed no
\* listener is sent a stderr line any more.
C35_NoStderrOnceStdoutClosed ==
  [][(process # 0 /\ process' # 0 /\ reader["stdout"] = "done")
       => \A r \in Jobs : delivered'[r]["stderr"] = delivered[r]["stderr"]]_vars

\* C35 (amended): the two streams are treated differently at their end.  A
\* closed stderr queue changes nothing for stdout: a stdout line taken by
\* the broadcaster after it is sent to every active stdout sink with room.
\* A closed stdout queue counts from the pass of the select that takes it
\* (the broadcaster enters drainStderr, which it does only with the stdout
\* queue closed): from then on no listener is sent a stderr line, a stderr
\* line that is received is dropped and put into no sink, and drainStderr
\* is left only with the stderr queue closed or done
\* raised, in the step that closes the active sinks and ends the
\* broadcaster.
C35_StreamAsymmetry ==
  /\ [][(process # 0 /\ process' # 0 /\ discarding /\ ~draining
           /\ reader["stderr"] = "done"
           /\ reader["stdout"] = "send" /\ reader'["stdout"] = "scan")
          => \A r \in Takers("stdout") :
               delivered'[r]["stdout"]
                 = Append(delivered[r]["stdout"], lineCount["stdout"])]_vars
  /\ [](draining => (discarding /\ reader["stdout"] = "done"))
  /\ [][(process # 0 /\ process' # 0 /\ draining)
          => /\ \A r \in Jobs :
                  delivered'[r]["stderr"] = delivered[r]["stderr"]
             /\ \A r \in Jobs : sinkLen'[r]["stderr"] <= sinkLen[r]["stderr"]
             /\ ~draining'
                  => /\ reader["stderr"] = "done" \/ doneCh > 0
                     /\ ~discarding' /\ streamChans' = <<>>
                     /\ ActiveSinks(streamChans) \subseteq closedSinks']_vars

\* C35 witness: with the stdout queue closed and done not raised, the
\* broadcaster is in drainStderr and has taken the one stderr line written
\* after registration 1 was made; the stderr sink of the registration is
\* active and empty, and was sent nothing.
C35_Witness ==
  /\ draining /\ doneCh = 0 /\ reader["stdout"] = "done"
  /\ regAt[1]["stderr"] = 0 /\ written["stderr"] = 1
  /\ lineCount["stderr"] = 1 /\ reader["stderr"] = "scan"
  /\ <<1, "stderr">> \in ActiveSinks(streamChans)
  /\ delivered[1]["stderr"] = <<>> /\ sinkLen[1]["stderr"] = 0

\* C36 (as stated; refuted): when the caller's ctx is done while the call is
\* in the grace wait and the process has not exited, the call leaves the
\* wait through a SIGKILL.
C36_CtxDoneKills ==
  \A t \in StopThreads :
    []((/\ pc[t] = "kp_select" /\ callerCtxDone /\ procState = "running"
        /\ killCalls = 0)
         => [](pc[t] = "cleanup" => killCalls > 0))

\* C36 (amended): the grace wait ends with the caller's ctx as well as with
\* the grace period.  Once the caller's ctx is done the call does not stay in
\* the select; if the exit of the process has not been received by then, the
\* call leaves through the timeout branch, calling Kill in that step, and a
\* process that still runs gets SIGKILL; if the exit was received meanwhile
\* the select may take it instead, and then nothing is killed.
C36_CallerCtxBoundsGrace ==
  /\ [][\A t \in Callers :
          (pc[t] = "kp_select" /\ pc'[t] # "kp_select" /\ callerCtxDone
             /\ done = "empty")
            => /\ selected' = "ctx"
               /\ killCalls' = killCalls + 1
               /\ procState = "running"
                    => (killSent' = killSent + 1 /\ killedAlive')]_vars
  /\ [][\A t \in Callers :
          (pc[t] = "kp_select" /\ pc'[t] # "kp_select" /\ selected' = "done")
            => (done # "empty" /\ UNCHANGED <<killCalls, killSent>>)]_vars
  /\ \A t \in Callers :
       (pc[t] = "kp_select" /\ callerCtxDone) ~> (pc[t] # "kp_select")

\* C36 witness: the caller's ctx was done while the process, sent SIGTERM,
\* was still running; the select took the timeout branch and the SIGKILL hit
\* the running process.
C36_Witness ==
  \E t \in StopThreads :
    /\ pc[t] = "fk_cmdwait" /\ t = performer /\ GracefulStop
    /\ callerCtxDone /\ selected = "ctx"
    /\ termAlive /\ killSent = 1 /\ killedAlive /\ done = "empty"

\* The deferred p.Stop(context.Background(), 0) of Wait is under way in
\* call t.
InDeferredStop(t) ==
  t \in ExecThreads /\ pc[t] \in {"st_once", "fk_cmdwait", "cleanup"}

\* C37: the value Wait returns is fixed in the step that maps the result of
\* cmdWait and the state of the deadline, and no step of the deferred Stop
\* changes it, whatever that Stop returns; the deferred Stop, when it runs
\* the body, goes the forceful way (Kill called, no SIGTERM); and a Wait
\* that found a clean exit returns nil after it.
C37_WaitValueKept ==
  /\ [][\A t \in ExecThreads :
          (pc[t] = "w_classify" /\ pc'[t] # "w_classify")
            => /\ InDeferredStop(t)'
               /\ waitErr'[t] = WaitResult(cmdWaitResult, timeoutCtx)]_vars
  /\ [][\A t \in ExecThreads :
          InDeferredStop(t)
            => /\ waitErr'[t] = waitErr[t]
               /\ pc'[t] \in {"st_once", "fk_cmdwait", "cleanup", "e_ret"}]_vars
  /\ [][\A t \in ExecThreads :
          (pc[t] = "st_once" /\ pc'[t] # "st_once"
             /\ bodyRuns' = bodyRuns + 1)
            => /\ performer' = t /\ perfGrace' = 0
               /\ killCalls' = killCalls + 1 /\ termSent' = termSent]_vars
  /\ [](\A t \in ExecThreads :
          (pc[t] = "e_ret" /\ waitReturned /\ cmdWaitResult = "nil")
            => waitErr[t] = "nil")

\* C37 witness: the process exited by itself with success, Wait mapped that
\* to nil, and its deferred Stop has run the body the forceful way: Kill was
\* called on the process already waited for and nothing was sent.
C37_Witness ==
  \E t \in ExecThreads :
    /\ pc[t] = "cleanup" /\ performer = t /\ perfGrace = 0
    /\ cmdWaitResult = "nil" /\ waitErr[t] = "nil"
    /\ procState = "reaped" /\ timeoutCtx = "armed"
    /\ killCalls = 1 /\ killSent = 0 /\ termSent = 0

\* C38 (as stated; refuted): a handle on which Start attached no deadline
\* (Timeout unset, 0 or negative) never sees a deadline pass and its process
\* is never killed through the context.
C38_NoDeadlineUnlessPositive ==
  [][(process # 0 /\ process' # 0 /\ timeoutCtx \in {"none", "inherited"})
       => (timeoutCtx' # "expired" /\ ctxKilled' = ctxKilled)]_vars

\* C38 (amended): commander.Start attaches a deadline of its own exactly
\* when the Timeout option is set and positive; with Timeout unset, 0 or
\* negative the handle runs under the caller's ctx as it is.  On one handle
\* a deadline is armed only by the start; a handle with no deadline at all
\* never gets one, its process is never killed through the context and its
\* Wait never maps an exit to ErrTimeout; a deadline inherited from the
\* caller is not released by the handle, it stays pending until it passes;
\* a deadline of the handle's own stays armed until it passes or until the
\* cleanup of Stop cancels it, and a failed start leaves none behind; Wait
\* returns ErrTimeout only when a deadline has passed.
C38_DeadlineOnlyIfPositive ==
  /\ \A o \in Timeouts :
       applyTimeout(o) = IF o \in {<<>>, <<-1>>, <<0>>} THEN "none" ELSE "armed"
  /\ \A o \in Timeouts : \A d \in BOOLEAN :
       startCtx(applyTimeout(o), d)
         = IF o = <<1>> THEN "armed" ELSE IF d THEN "inherited" ELSE "none"
  /\ [][(timeoutCtx' \in {"armed", "inherited"} /\ timeoutCtx' # timeoutCtx)
          => /\ process = 0 /\ process' # 0
             /\ procState' = "running" /\ ~cancelCalled']_vars
  /\ [][(process # 0 /\ process' # 0 /\ timeoutCtx = "none")
          => /\ timeoutCtx' = "none"
             /\ ctxKilled' = ctxKilled
             /\ \A t \in ExecThreads :
                  (pc[t] = "w_classify" /\ pc'[t] # "w_classify")
                    => waitErr'[t] # ErrTimeout]_vars
  /\ [][(process # 0 /\ process' # 0 /\ timeoutCtx = "inherited"
           /\ timeoutCtx' # "inherited")
          => timeoutCtx' = "expired" /\ cancelCalled' = cancelCalled]_vars
  /\ [][(process # 0 /\ process' # 0 /\ timeoutCtx = "armed"
           /\ timeoutCtx' # "armed")
          => \/ timeoutCtx' = "expired" /\ cancelCalled' = cancelCalled
             \/ /\ timeoutCtx' = "none" /\ ~cancelCalled /\ cancelCalled'
                /\ doneCh' = doneCh + 1
                /\ \E t \in Callers : pc[t] = "cleanup" /\ pc'[t] # "cleanup"]_vars
  /\ [](\A t \in ExecThreads :
          (pc[t] = "e_ret" /\ waitErr[t] = ErrStart)
            => (timeoutCtx = "none" /\ cancelCalled))
  /\ [](\A t \in ExecThreads :
          (pc[t] \in {"st_once", "fk_cmdwait", "cleanup", "e_ret"}
             /\ waitErr[t] = ErrTimeout)
            => timeoutCtx = "expired")

\* C38 witness: a job started with no deadline at all was stopped by a call
\* of Stop; nothing was cancelled yet when Wait mapped the death by SIGKILL
\* to ErrKilled, and the context killed nothing.
C38_Witness ==
  \E t \in ExecThreads :
    /\ pc[t] = "st_once" /\ href[t] = process /\ process # 0
    /\ timeoutCtx = "none" /\ ~cancelCalled /\ ~ctxKilled
    /\ killSent = 1 /\ killedAlive
    /\ cmdWaitResult = "SignalKILL" /\ waitErr[t] = ErrKilled

\* The fields a payload sets, every absent key left unset.
PayloadFields(args) == Unmarshal(args, AudioSockBroadcast)

\* C39: AudioSockBroadcast.ParseArgs returns an argument list only when the
\* payload unmarshals and all validations pass, checked in the order socket
\* path, frequency, sample rate, preset, gain, the first failure being the
\* one returned; on any failure the list and the input stream are both
\* absent; on success the input stream is absent and the list is exactly
\* [frequency, socket path, sample rate or 48000, preset or FM, gain or 1]
\* of the payload.
C39_ParseArgsOfPayload ==
  parsed.payload # <<>> =>
    LET args == parsed.payload[1]
        ret  == parsed.ret
        f    == PayloadFields(args)
        firstFailure ==
          IF UnmarshalErr(args) # "nil" THEN ErrUnmarshal
          ELSE IF validateSocketPath(f) # "nil" THEN ErrRequiredFieldNotSet
          ELSE IF validateFrequency(f) # "nil" THEN validateFrequency(f)
          ELSE IF validateSampleRate(f) # "nil" THEN ErrSampleRatePositive
          ELSE IF validateCSDRPreset(f) # "nil" THEN ErrInvalidPreset
          ELSE IF validateGain(f) # "nil" THEN ErrGainNonNegative
          ELSE "nil"
    IN  /\ ret.stdin = "nil"
        /\ ret.err = firstFailure
        /\ ret.err # "nil" => ret.args = <<>>
        /\ ret.err = "nil" =>
             ret.args = << FormatFloat0(f.Frequency),
                           f.SocketPath,
                           IF f.SampleRate = <<>> THEN "48000"
                           ELSE Itoa(f.SampleRate[1]),
                           IF f.CSDRPreset = <<>> THEN "FM"
                           ELSE f.CSDRPreset[1],
                           IF f.Gain = <<>> THEN "1"
                           ELSE FormatFloatShortest(f.Gain[1]) >>

====
